---- MODULE Spec2Model ----
(***************************************************************************)
(* A model of typespec-py: the parsimonious grammar and its visitor        *)
(* (typespec_parser/parsimonious_parser.py) and the TypeSpecParser facade  *)
(* with its dataclass emitter (typespec_parser/parser.py).                 *)
(*                                                                         *)
(* Source text is a sequence of lexemes.  A lexeme is a string the         *)
(* grammar's regexes and literals treat as a unit: a blank, a word         *)
(* matching [a-zA-Z_][a-zA-Z0-9_]*, or one punctuation mark.  Python's     *)
(* str methods used by the visitor (strip, split, endswith, slicing) are   *)
(* computed on the lexeme sequence, and a str that is stored in the table  *)
(* is the concatenation of its lexemes.                                    *)
(***************************************************************************)
EXTENDS Integers, Sequences, FiniteSets, TLC

VARIABLES
    definitions,   \* self.definitions of the TypeSpecParser instance
    source,        \* the declarations the last parse call's text was written from
    returned,      \* the table the last parse call returned (<<>> when it raised)
    raised,        \* TRUE when the last parse call raised instead of returning
    entry,         \* self.definitions as it was when the last parse call started
    output,        \* what the last generate_dataclasses call returned, NoOutput after a parse
    field,         \* the TypeSpecField handed to _generate_field (emitter specification)
    fieldText,     \* the str _generate_field returned for it
    spelling,      \* the spelling handed to _normalize_enum_member (normalisation specification)
    symbol,        \* what _normalize_enum_member returned for it
    again,         \* what _normalize_enum_member returned for symbol
    heap,          \* the dict objects allocated so far, each as its table (instances specification)
    instance,      \* for every TypeSpecParser instance: its attribute and its call in progress
    held,          \* the tables parse returned, as their callers hold them
    script,        \* PEGParser.text, a sequence of characters (PEGParser specifications)
    pos,           \* PEGParser.pos, 0-based as in the source
    peg,           \* the locals of the PEGParser call in progress
    scanned        \* what _parse_with_lines returned (line scanner specification)

\* the state of the specification of several instances
instanceVars == <<heap, instance, held>>

\* the state of the PEGParser specifications
pegVars == <<script, pos, peg>>

\* the state of the one-instance specifications
vars1 == <<definitions, source, returned, raised, entry, output, field, fieldText,
           spelling, symbol, again>>

vars == <<vars1, instanceVars, pegVars, scanned>>

-----------------------------------------------------------------------------
(* Lexemes *)

\* Python's None (Optional[str] reference, and values that are absent)
None == "None"

\* ws = ~r"\s*" : the characters the regex \s matches
Blanks == {" ", "\n"}

\* identifier = ~r"[a-zA-Z_][a-zA-Z0-9_]*" : the words of the vocabulary that match it
Identifiers ==
    { "model", "enum", "extends", "is",
      "string", "integer", "int32", "boolean", "number",
      "Address", "User", "Admin", "Status", "Kind", "Zed",
      "street", "name", "role", "tags", "active", "inactive", "heavy", "oops",
      "doc", "key" }

\* string_literal = ~r'"[^"]*"' : the string literals of the vocabulary
StringLiterals == { "\"red\"", "\"blue\"" }

\* a // comment up to its line's end, and a /* */ comment: no expression of the
\* grammar matches either (ws is \s* alone)
Comments == { "// note", "/* note */" }

\* the lexeme at position p of text t; EOF past the end
EOF == "EOF"
Tok(t, p) == IF p \in DOMAIN t THEN t[p] ELSE EOF

\* A match of a grammar expression at position p is the position right after the
\* matched span; 0 stands for parsimonious' "no match" (None).  No expression
\* matches at 0: a sequence is written as its members applied one to the end of
\* the other, and fails where a member does.  A repetition x* is an operator
\* x_tail on the end of what precedes it, failing when that failed.
Matched(q) == q > 0

\* parsimonious Literal: matches when the text at p starts with s
Lit(t, p, s) == IF p = 0 THEN 0 ELSE IF Tok(t, p) = s THEN p + 1 ELSE 0

RECURSIVE ws(_, _)
ws(t, p) == IF p = 0 THEN 0 ELSE IF Tok(t, p) \in Blanks THEN ws(t, p + 1) ELSE p

identifier(t, p) ==
    IF p = 0 THEN 0 ELSE IF Tok(t, p) \in Identifiers THEN p + 1 ELSE 0

\* str.join of a lexeme sequence: the str the lexemes spell
RECURSIVE Join(_)
Join(s) == IF s = <<>> THEN "" ELSE Head(s) \o Join(Tail(s))

\* node.text: the lexemes of the span [a, b)
Text(t, a, b) == SubSeq(t, a, b - 1)

-----------------------------------------------------------------------------
(* TYPESPEC_GRAMMAR: ordered choice, greedy repetition, no backtracking into *)
(* a repetition.  Alternatives that start with a lexeme the vocabulary does   *)
(* not hold ("(", "<", "#[", "...", a digit) can never match and are left    *)
(* out of the choice they belong to.                                         *)

string_literal(t, p) ==
    IF p = 0 THEN 0 ELSE IF Tok(t, p) \in StringLiterals THEN p + 1 ELSE 0

\* literal = string_literal / boolean_literal / numeric_literal
\* boolean_literal = "true" / "false"
literal(t, p) ==
    IF Tok(t, p) \in StringLiterals \cup {"true", "false"} THEN p + 1 ELSE 0

\* (ws "." ws identifier)*
RECURSIVE member_tail(_, _)
member_tail(t, p) ==
    LET d == Lit(t, ws(t, p), ".")
        i == identifier(t, ws(t, d))
    IN  IF p = 0 THEN 0 ELSE IF d = 0 \/ i = 0 THEN p ELSE member_tail(t, i)

\* identifier (ws "." ws identifier)*
identifier_or_member_expression(t, p) == member_tail(t, identifier(t, p))

\* reference_expression = identifier_or_member_expression ws template_arguments?
\* (the trailing ws belongs to the node; template_arguments needs "<")
reference_expression(t, p) == ws(t, identifier_or_member_expression(t, p))

\* primary_expression = literal / call_or_reference_expression / ...
\* call_expression needs "(" after the name, so the choice falls to reference_expression
primary_expression(t, p) ==
    IF p = 0 THEN 0
    ELSE IF literal(t, p) # 0 THEN literal(t, p) ELSE reference_expression(t, p)

\* (ws "[" ws "]")*
RECURSIVE array_suffixes(_, _)
array_suffixes(t, p) ==
    LET o == Lit(t, ws(t, p), "[")
        c == Lit(t, ws(t, o), "]")
    IN  IF p = 0 THEN 0 ELSE IF o = 0 \/ c = 0 THEN p ELSE array_suffixes(t, c)

\* array_expression_or_higher = primary_expression (ws "[" ws "]")*
array_expression_or_higher(t, p) == array_suffixes(t, primary_expression(t, p))

\* (ws "&" ws array_expression_or_higher)* : one more round when e, the match of
\* the group after p, is one
RECURSIVE intersection_tail(_, _)
intersection_next(t, p, e) == IF e = 0 THEN p ELSE intersection_tail(t, e)

intersection_tail(t, p) ==
    LET a == Lit(t, ws(t, p), "&")
    IN  IF p = 0 THEN 0 ELSE IF a = 0 THEN p
        ELSE intersection_next(t, p, array_expression_or_higher(t, ws(t, a)))

\* intersection_expression_or_higher =
\*   array_expression_or_higher (ws "&" ws array_expression_or_higher)*
intersection_expression_or_higher(t, p) ==
    intersection_tail(t, array_expression_or_higher(t, p))

\* (ws "|" ws intersection_expression_or_higher)*
RECURSIVE union_tail(_, _)
union_next(t, p, e) == IF e = 0 THEN p ELSE union_tail(t, e)

union_tail(t, p) ==
    LET b == Lit(t, ws(t, p), "|")
    IN  IF p = 0 THEN 0 ELSE IF b = 0 THEN p
        ELSE union_next(t, p, intersection_expression_or_higher(t, ws(t, b)))

\* union_expression_or_higher =
\*   intersection_expression_or_higher (ws "|" ws intersection_expression_or_higher)*
union_expression_or_higher(t, p) ==
    union_tail(t, intersection_expression_or_higher(t, p))

\* expression = union_expression_or_higher
expression(t, p) == union_expression_or_higher(t, p)

\* the identifier nodes of an identifier_or_member_expression whose match ends
\* at e: the texts of the identifiers from p on, in order
RECURSIVE member_names(_, _, _)
member_names(t, p, e) ==
    IF p >= e THEN <<>>
    ELSE IF Tok(t, p) \in Identifiers THEN <<Tok(t, p)>> \o member_names(t, p + 1, e)
    ELSE member_names(t, p + 1, e)

\* decorator = "@" ws identifier_or_member_expression ws decorator_arguments? ws
\* (decorator_arguments needs "("): the end of the name, and the end of the node
decorator_name_end(t, p) == identifier_or_member_expression(t, ws(t, Lit(t, p, "@")))

decorator(t, p) == ws(t, decorator_name_end(t, p))

\* (ws decorator)* after a decorator that ends at p: the end, and the
\* identifier nodes below
RECURSIVE decorator_tail(_, _, _)
decorator_tail(t, p, acc) ==
    LET s == ws(t, p)
    IN  IF Tok(t, s) # "@" \/ decorator(t, s) = 0 THEN [end |-> p, names |-> acc]
        ELSE decorator_tail(t, decorator(t, s),
                            acc \o member_names(t, s, decorator_name_end(t, s)))

\* decorator_list? with decorator_list = decorator (ws decorator)* : the end
\* (p when there is no decorator) and the identifier nodes below the node
decorator_list_opt(t, p) ==
    IF Tok(t, p) # "@" \/ decorator(t, p) = 0 THEN [end |-> p, names |-> <<>>]
    ELSE decorator_tail(t, decorator(t, p),
                        member_names(t, p, decorator_name_end(t, p)))

\* optional_marker? : the position after an optional "?"
optional_marker_opt(t, p) == IF p = 0 THEN 0 ELSE IF Tok(t, p) = "?" THEN p + 1 ELSE p

\* comma_or_semicolon = ~r"[,;]"
comma_or_semicolon(t, p) ==
    IF p = 0 THEN 0 ELSE IF Tok(t, p) \in {",", ";"} THEN p + 1 ELSE 0

\* model_property, second and third alternative, from the name that ends at n:
\*   decorator_list? identifier     ws ":" ws expression optional_marker? ws
\*   decorator_list? string_literal ws ":" ws expression ws optional_marker?
\* (c is the end of ws ":" ws, e the end of the expression)
model_property_typed(t, c, e, quoted) ==
    IF c = 0 \/ e = 0 THEN 0
    ELSE IF quoted THEN optional_marker_opt(t, ws(t, e))
    ELSE ws(t, optional_marker_opt(t, e))

model_property_from(t, n, c, quoted) ==
    IF n = 0 THEN 0 ELSE model_property_typed(t, c, expression(t, c), quoted)

\* model_property = model_spread_property / (...) / (...)
\* (model_spread_property needs "..."; the two other alternatives differ in
\* the name and in the place of the trailing ws, and a name is an identifier
\* or else a string_literal)
model_property(t, p) ==
    LET s == decorator_list_opt(t, p).end
        n == IF identifier(t, s) # 0 THEN s + 1 ELSE string_literal(t, s)
        c == ws(t, Lit(t, ws(t, n), ":"))
    IN  IF p = 0 THEN 0
        ELSE model_property_from(t, n, c, identifier(t, s) = 0)

\* (ws comma_or_semicolon ws model_property)* : the end, and the spans of the
\* model_property nodes matched, in order; m is the match of model_property at s
RECURSIVE model_property_tail(_, _, _)
model_property_next(t, p, acc, s, m) ==
    IF m = 0 THEN [end |-> p, items |-> acc]
    ELSE model_property_tail(t, m, Append(acc, <<s, m>>))

model_property_tail(t, p, acc) ==
    LET s == ws(t, comma_or_semicolon(t, ws(t, p)))
    IN  IF s = 0 THEN [end |-> p, items |-> acc]
        ELSE model_property_next(t, p, acc, s, model_property(t, s))

\* (ws comma_or_semicolon)? after the last item of a list
trailing_separator_opt(t, rest) ==
    LET sep == comma_or_semicolon(t, ws(t, rest.end))
    IN  [end |-> IF sep # 0 THEN sep ELSE rest.end, items |-> rest.items]

\* model_property_list =
\*   model_property (ws comma_or_semicolon ws model_property)* (ws comma_or_semicolon)?
\* from its first model_property, matched at p up to `first`
model_property_list_from(t, p, first) ==
    IF first = 0 THEN [end |-> 0, items |-> <<>>]
    ELSE trailing_separator_opt(t, model_property_tail(t, first, <<<<p, first>>>>))

model_property_list(t, p) == model_property_list_from(t, p, model_property(t, p))

\* a parse-tree node: the name of the grammar expression that matched (the empty
\* str for an unnamed one: a literal, a group, a quantified term), its text, its
\* child nodes
Node(name, text, children) ==
    [expr_name |-> name, text |-> text, children |-> children]

\* the keyword of is_model_heritage or of extends_model_heritage at p
heritage_keyword(t, p) ==
    IF Matched(Lit(t, p, "is")) THEN "is"
    ELSE IF Matched(Lit(t, p, "extends")) THEN "extends" ELSE None

\* the node of a model_heritage whose expression is matched from w up to e.
\* `expression = union_expression_or_higher` names the same grammar expression
\* twice; the node carries the name of its own rule.
model_heritage_node(t, p, kw, w, e) ==
    IF ~Matched(e) THEN [end |-> 0, node |-> Node("", <<>>, <<>>)]
    ELSE [end  |-> e,
          node |-> Node("model_heritage", Text(t, p, e),
                    << Node(kw \o "_model_heritage", Text(t, p, e),
                         << Node("", Text(t, p, p + 1), <<>>),
                            Node("ws", Text(t, p + 1, w), <<>>),
                            Node("union_expression_or_higher", Text(t, w, e), <<>>) >>) >>)]

\* model_heritage = is_model_heritage / extends_model_heritage, each a keyword,
\* ws and an expression
model_heritage(t, p) ==
    model_heritage_node(t, p, heritage_keyword(t, p), ws(t, p + 1),
        IF heritage_keyword(t, p) = None THEN 0 ELSE expression(t, ws(t, p + 1)))

\* model_statement = decorator_list? "model" ws identifier ws template_parameters? ws
\*                   model_heritage? ws "{" ws model_body? ws "}"
\* A quantified term (x?) matches as an unnamed node of its own, whose children
\* are the matches of x: none or one.  The rule is matched in three steps: up
\* to model_heritage? (h), on to model_body? (b), and to the closing brace.
\* `decorators` keeps the identifier nodes below the decorator_list? child:
\* what the visit of that child hands up (generic_visit, visit_identifier).
model_statement_closed(t, p, d, m, w1, i, w2, h, he, w4, o, w5, b) ==
    LET be == IF Matched(b.end) THEN b.end ELSE w5
        w6 == ws(t, be)
        c  == Lit(t, w6, "}")
    IN  IF ~Matched(w5) \/ ~Matched(c) THEN [end |-> 0]
        ELSE [end      |-> c,
              rule     |-> "model_statement",
              text     |-> Text(t, p, c),
              decorators |-> d.names,
              children |->
                << Node("", Text(t, p, d.end), <<>>),
                   Node("", Text(t, d.end, m), <<>>),
                   Node("ws", Text(t, m, w1), <<>>),
                   Node("identifier", Text(t, w1, i), <<>>),
                   Node("ws", Text(t, i, w2), <<>>),
                   Node("", <<>>, <<>>),
                   Node("ws", <<>>, <<>>),
                   Node("", Text(t, w2, he), IF Matched(h.end) THEN <<h.node>> ELSE <<>>),
                   Node("ws", Text(t, he, w4), <<>>),
                   Node("", Text(t, w4, o), <<>>),
                   Node("ws", Text(t, o, w5), <<>>),
                   Node("", Text(t, w5, be), <<>>),
                   Node("ws", Text(t, be, w6), <<>>),
                   Node("", Text(t, w6, c), <<>>) >>,
              items    |-> IF Matched(b.end) THEN b.items ELSE <<>>]

model_statement_opened(t, p, d, m, w1, i, w2, h) ==
    LET he == IF Matched(h.end) THEN h.end ELSE w2
        w4 == ws(t, he)
        o  == Lit(t, w4, "{")
        w5 == ws(t, o)
    IN  IF ~Matched(he) \/ ~Matched(o) THEN [end |-> 0]
        ELSE model_statement_closed(t, p, d, m, w1, i, w2, h, he, w4, o, w5,
                                    model_property_list(t, w5))

model_statement(t, p) ==
    LET d  == decorator_list_opt(t, p)
        m  == Lit(t, d.end, "model")
        w1 == ws(t, m)
        i  == identifier(t, w1)
        w2 == ws(t, i)
    IN  IF ~Matched(p) \/ ~Matched(m) \/ ~Matched(i) THEN [end |-> 0]
        ELSE model_statement_opened(t, p, d, m, w1, i, w2, model_heritage(t, w2))

\* enum_member_value? with enum_member_value = ":" ws (string_literal / numeric_literal)
enum_member_value_opt(t, p) ==
    LET v == string_literal(t, ws(t, Lit(t, p, ":")))
    IN  IF p = 0 THEN 0 ELSE IF v = 0 THEN p ELSE v

\* an identifier or else a string_literal at p
identifier_or_string(t, p) ==
    IF identifier(t, p) # 0 THEN p + 1 ELSE string_literal(t, p)

\* enum_member = enum_spread_member /
\*               (decorator_list? identifier ws enum_member_value?) /
\*               (decorator_list? string_literal ws enum_member_value?)
\* (enum_spread_member needs "..."; the two other alternatives differ in the
\* name alone and the first has no way to fail after its identifier)
enum_member_named(t, p) == ws(t, identifier_or_string(t, decorator_list_opt(t, p).end))

enum_member(t, p) ==
    IF p = 0 THEN 0 ELSE enum_member_value_opt(t, enum_member_named(t, p))

\* (ws comma_or_semicolon ws enum_member)* : the end, and the spans of the
\* enum_member nodes matched, in order; m is the match of enum_member at s
RECURSIVE enum_member_tail(_, _, _)
enum_member_next(t, p, acc, s, m) ==
    IF m = 0 THEN [end |-> p, items |-> acc]
    ELSE enum_member_tail(t, m, Append(acc, <<s, m>>))

enum_member_tail(t, p, acc) ==
    LET s == ws(t, comma_or_semicolon(t, ws(t, p)))
    IN  IF s = 0 THEN [end |-> p, items |-> acc]
        ELSE enum_member_next(t, p, acc, s, enum_member(t, s))

\* enum_member_list = enum_member (ws comma_or_semicolon ws enum_member)* (ws comma_or_semicolon)?
\* from its first enum_member, matched at p up to `first`
enum_member_list_from(t, p, first) ==
    IF first = 0 THEN [end |-> 0, items |-> <<>>]
    ELSE trailing_separator_opt(t, enum_member_tail(t, first, <<<<p, first>>>>))

enum_member_list(t, p) == enum_member_list_from(t, p, enum_member(t, p))

\* enum_statement = decorator_list? "enum" ws identifier ws "{" ws enum_body? ws "}"
\* matched up to enum_body? (b), then to the closing brace
enum_statement_closed(t, p, d, k, w1, i, w2, o, w3, b) ==
    LET be == IF Matched(b.end) THEN b.end ELSE w3
        w4 == ws(t, be)
        c  == Lit(t, w4, "}")
    IN  IF ~Matched(w3) \/ ~Matched(c) THEN [end |-> 0]
        ELSE [end      |-> c,
              rule     |-> "enum_statement",
              text     |-> Text(t, p, c),
              decorators |-> d.names,
              children |->
                << Node("", Text(t, p, d.end), <<>>),
                   Node("", Text(t, d.end, k), <<>>),
                   Node("ws", Text(t, k, w1), <<>>),
                   Node("identifier", Text(t, w1, i), <<>>),
                   Node("ws", Text(t, i, w2), <<>>),
                   Node("", Text(t, w2, o), <<>>),
                   Node("ws", Text(t, o, w3), <<>>),
                   Node("", Text(t, w3, be), <<>>),
                   Node("ws", Text(t, be, w4), <<>>),
                   Node("", Text(t, w4, c), <<>>) >>,
              items    |-> IF Matched(b.end) THEN b.items ELSE <<>>]

enum_statement(t, p) ==
    LET d  == decorator_list_opt(t, p)
        k  == Lit(t, d.end, "enum")
        w1 == ws(t, k)
        i  == identifier(t, w1)
        w2 == ws(t, i)
        o  == Lit(t, w2, "{")
        w3 == ws(t, o)
    IN  IF ~Matched(p) \/ ~Matched(k) \/ ~Matched(i) \/ ~Matched(o) THEN [end |-> 0]
        ELSE enum_statement_closed(t, p, d, k, w1, i, w2, o, w3, enum_member_list(t, w3))

\* empty_statement = ";"
empty_statement(t, p) ==
    IF Matched(Lit(t, p, ";"))
    THEN [end |-> p + 1, rule |-> "empty_statement", text |-> Text(t, p, p + 1),
          decorators |-> <<>>, children |-> <<>>, items |-> <<>>]
    ELSE [end |-> 0]

\* ordered choice of three: the first of a, b, c that matched
FirstMatched(a, b, c) ==
    IF Matched(a.end) THEN a ELSE IF Matched(b.end) THEN b ELSE c

\* statement = model_statement / enum_statement / union_statement /
\*             operation_statement / empty_statement
\* (union_statement and operation_statement need the words "union" and "op")
statement(t, p) ==
    FirstMatched(model_statement(t, p), enum_statement(t, p), empty_statement(t, p))

\* (ws statement)* : the end and the statement nodes matched, in order; s is
\* the match of statement after p
RECURSIVE statement_tail(_, _, _)
statement_next(t, p, acc, s) ==
    IF Matched(s.end) THEN statement_tail(t, s.end, Append(acc, s))
    ELSE [end |-> p, statements |-> acc]

statement_tail(t, p, acc) == statement_next(t, p, acc, statement(t, ws(t, p)))

\* statement_list? : statement (ws statement)*, or nothing
statement_list_opt(t, p) == statement_next(t, p, <<>>, statement(t, p))

\* typespec_script = ws statement_list? ws
script_end(t, list) == [end |-> ws(t, list.end), statements |-> list.statements]

typespec_script(t) == script_end(t, statement_list_opt(t, ws(t, 1)))

\* Grammar.parse: the tree when typespec_script matches the whole text;
\* IncompleteParseError when it matches only a prefix of it
ParseResult(t, tree) == [ok |-> tree.end = Len(t) + 1, statements |-> tree.statements]

GrammarParse(t) == ParseResult(t, typespec_script(t))

-----------------------------------------------------------------------------
(* Python str methods, on lexeme sequences *)

\* s.lstrip(chars) / s.rstrip(chars) / s.strip()
RECURSIVE LStrip(_, _)
LStrip(s, chars) ==
    IF s # <<>> /\ Head(s) \in chars THEN LStrip(Tail(s), chars) ELSE s

RECURSIVE RStrip(_, _)
RStrip(s, chars) ==
    IF s # <<>> /\ s[Len(s)] \in chars THEN RStrip(SubSeq(s, 1, Len(s) - 1), chars) ELSE s

Strip(s) == RStrip(LStrip(s, Blanks), Blanks)

\* the positions of the lexemes of s that are in seps, in order
Positions(s, seps) == { i \in 1..Len(s) : s[i] \in seps }

\* s.split(sep): the pieces between the occurrences of the one-character sep
RECURSIVE Split(_, _)
Split(s, sep) ==
    IF Positions(s, {sep}) = {} THEN <<s>>
    ELSE LET i == CHOOSE k \in Positions(s, {sep}) : \A j \in Positions(s, {sep}) : k <= j
         IN  <<SubSeq(s, 1, i - 1)>> \o Split(SubSeq(s, i + 1, Len(s)), sep)

\* s.split(): the words between runs of blanks, no empty word
RECURSIVE SplitBlanks(_)
SplitBlanks(s) ==
    LET r == LStrip(s, Blanks)
    IN  IF r = <<>> THEN <<>>
        ELSE IF Positions(r, Blanks) = {} THEN <<r>>
        ELSE LET i == CHOOSE k \in Positions(r, Blanks) : \A j \in Positions(r, Blanks) : k <= j
             IN  <<SubSeq(r, 1, i - 1)>> \o SplitBlanks(SubSeq(r, i + 1, Len(r)))

\* s.endswith(suffix)
EndsWith(s, suffix) ==
    Len(s) >= Len(suffix) /\ SubSeq(s, Len(s) - Len(suffix) + 1, Len(s)) = suffix

\* s.startswith(prefix)
StartsWith(s, prefix) ==
    Len(s) >= Len(prefix) /\ SubSeq(s, 1, Len(prefix)) = prefix

\* s[:-n]
DropLast(s, n) == SubSeq(s, 1, Len(s) - n)

\* str.swapcase on the same words and letters
Swapcase(w) ==
    CASE w = "active"   -> "ACTIVE"
      [] w = "inactive" -> "INACTIVE"
      [] w = "heavy"    -> "HEAVY"
      [] w = "a"        -> "A"
      [] w = "A"        -> "a"
      [] w = "B"        -> "b"
      [] OTHER          -> w

\* str.upper on a word of the vocabulary an enum member can be spelled with,
\* or on a letter
Upper(w) ==
    CASE w = "active"   -> "ACTIVE"
      [] w = "inactive" -> "INACTIVE"
      [] w = "heavy"    -> "HEAVY"
      [] w = "a"        -> "A"
      [] w = "A"        -> "A"
      [] w = "B"        -> "B"
      [] OTHER          -> w

\* str.upper on a str, given as the sequence of its pieces (words, letters,
\* other characters)
UpperAll(s) == [i \in 1..Len(s) |-> Upper(s[i])]

\* a replace that leaves the str as it is
ReplaceNothing(s, old, new) == s

\* str.replace(old, new) for a one-character old
Replace(s, old, new) == [i \in 1..Len(s) |-> IF s[i] = old THEN new ELSE s[i]]

\* value.upper().replace("-", "_").replace(" ", "_")
_normalize_enum_member(value) ==
    Replace(Replace(UpperAll(value), "-", "_"), " ", "_")

-----------------------------------------------------------------------------
(* The definitions table: a dict, kept as the sequence of its values in      *)
(* insertion order; every value carries its key as .name                     *)

TypeSpecField(name, type, is_optional, is_array, reference) ==
    [name |-> name, type |-> type, is_optional |-> is_optional,
     is_array |-> is_array, reference |-> reference]

TypeSpecDefinition(name, type, fields, values) ==
    [name |-> name, type |-> type, fields |-> fields, values |-> values]

\* name in table
Has(table, name) == \E i \in 1..Len(table) : table[i].name = name

\* table[name]
Get(table, name) == table[CHOOSE i \in 1..Len(table) : table[i].name = name]

\* a table that keeps the value a key has
PutKeepsFirst(table, definition) ==
    IF Has(table, definition.name) THEN table ELSE Append(table, definition)

\* table[name] = definition : a new key goes last, an old key keeps its place
Put(table, definition) ==
    IF Has(table, definition.name)
    THEN [i \in 1..Len(table) |->
            IF table[i].name = definition.name THEN definition ELSE table[i]]
    ELSE Append(table, definition)

-----------------------------------------------------------------------------
(* TypeSpecVisitor *)

\* the type names visit_model_property leaves without a reference
PrimitiveNames == {"string", "integer", "int32", "boolean", "number"}

\* an array check that leaves the "[]" on the type
KeepArraySuffix(field_type) == field_type

\* visit_model_property, lines 230-233: the type without a trailing "[]"
StripArraySuffix(field_type) ==
    IF EndsWith(field_type, <<"[", "]">>) THEN DropLast(field_type, 2) ELSE field_type

\* visit_model_property, lines 235-238: the type without a trailing "?"
StripOptionalSuffix(field_type) ==
    IF EndsWith(field_type, <<"?">>) THEN DropLast(field_type, 1) ELSE field_type

\* a reference only for dotted names: a plain name is taken for a primitive
ReferenceOfDottedOnly(field_type) ==
    LET dotted == Split(field_type, ".")
        member == SubSeq(field_type, Len(dotted[1]) + 2, Len(field_type))
    IN  IF Len(dotted) > 1
        THEN Join(dotted[1]) \o "." \o Join(_normalize_enum_member(member))
        ELSE None

\* visit_model_property, lines 240-255: the reference of a stripped type: None
\* for a primitive name, Enum.MEMBER for a dotted name, else the name itself
ReferenceOf(field_type) ==
    LET dotted == Split(field_type, ".")
        member == SubSeq(field_type, Len(dotted[1]) + 2, Len(field_type))
    IN  IF Join(field_type) \in PrimitiveNames THEN None
        ELSE IF Len(dotted) > 1
             THEN Join(dotted[1]) \o "." \o Join(_normalize_enum_member(member))
             ELSE Join(field_type)

\* visit_model_property, from the text of the model_property node: a list with
\* the TypeSpecField, or the empty list for its None
visit_model_property(text) ==
    LET parts      == Split(Strip(text), ":")
        left0      == Strip(parts[1])
        right_part == RStrip(Strip(parts[2]), {";"})
        opt_left   == EndsWith(left0, <<"?">>)
        left_part  == IF opt_left THEN Strip(DropLast(left0, 1)) ELSE left0
        words      == SplitBlanks(left_part)
        property_name == IF left_part # <<>> THEN Join(words[Len(words)]) ELSE "unknown"
        type0      == IF right_part # <<>> THEN right_part ELSE <<"string">>
        is_array   == EndsWith(type0, <<"[", "]">>)
        type1      == StripArraySuffix(type0)
        opt_right  == EndsWith(type1, <<"?">>)
        type2      == StripOptionalSuffix(type1)
        reference  == ReferenceOf(type2)
        field_type == IF reference = None THEN Join(type2) ELSE "object"
    IN  IF Len(parts) >= 2
        THEN <<TypeSpecField(property_name, field_type, opt_left \/ opt_right,
                             is_array, reference)>>
        ELSE <<>>

\* a visit that hands the fields up last property first
RECURSIVE VisitPropertiesLastFirst(_, _)
VisitPropertiesLastFirst(t, items) ==
    IF items = <<>> THEN <<>>
    ELSE VisitPropertiesLastFirst(t, Tail(items))
            \o visit_model_property(Text(t, Head(items)[1], Head(items)[2]))

\* visit_model_property_list and the generic_visit of the model_body? node above
\* it: the TypeSpecFields of the property nodes, in order, None results dropped
RECURSIVE visit_model_property_list(_, _)
visit_model_property_list(t, items) ==
    IF items = <<>> THEN <<>>
    ELSE visit_model_property(Text(t, Head(items)[1], Head(items)[2]))
            \o visit_model_property_list(t, Tail(items))

\* visit_model_statement, the inner loops over a model_heritage node: the text
\* of the `expression` child of its `extends_model_heritage` child, else base
HeritageBase(child, base) ==
    LET hs == SelectSeq(child.children, LAMBDA h : h.expr_name = "extends_model_heritage")
        es == IF hs = <<>> THEN <<>>
              ELSE SelectSeq(hs[Len(hs)].children, LAMBDA e : e.expr_name = "expression")
    IN  IF es = <<>> THEN base ELSE Join(Strip(es[Len(es)].text))

\* visit_model_statement, the loop over node.children that looks for the model
\* name (the identifier child after the child whose text is "model") and for the
\* base model (a child named model_heritage)
RECURSIVE ScanModelChildren(_, _, _)
ScanModelChildren(children, idx, acc) ==
    IF idx > Len(children) THEN acc
    ELSE LET child == children[idx]
             named ==
                IF child.text = <<"model">>
                THEN [acc EXCEPT !.model_keyword_found = TRUE]
                ELSE IF acc.model_keyword_found /\ child.expr_name = "identifier"
                     THEN [acc EXCEPT !.model_name = Join(child.text)]
                     ELSE acc
             based ==
                IF child.expr_name = "model_heritage"
                THEN [named EXCEPT !.base_model_name = HeritageBase(child, @)]
                ELSE named
         IN  ScanModelChildren(children, idx + 1, based)

\* parts[model_idx + 1] of the first line of the statement's text that starts
\* with "model " or holds " model ", cut at its first "{"; None when there is none
RECURSIVE ModelNameFromLines(_)
ModelNameFromLines(lines) ==
    IF lines = <<>> THEN None
    ELSE LET line  == Strip(Head(lines))
             parts == SplitBlanks(line)
             at    == { i \in 1..Len(parts) : parts[i] = <<"model">> }
             idx   == CHOOSE i \in at : \A j \in at : i <= j
             hit   == StartsWith(line, <<"model", " ">>)
                      \/ \E i \in 1..Len(line) - 2 :
                            SubSeq(line, i, i + 2) = <<" ", "model", " ">>
         IN  IF hit /\ at # {} /\ idx + 1 <= Len(parts)
             THEN Join(Strip(Split(parts[idx + 1], "{")[1]))
             ELSE ModelNameFromLines(Tail(lines))

\* the fields a model inherits: the base's fields whose name no declared property has
InheritedFields(base_fields, properties) ==
    SelectSeq(base_fields,
              LAMBDA f : \A i \in 1..Len(properties) : properties[i].name # f.name)

\* visit_model_statement: self.definitions after the visit of a model_statement node
visit_model_statement(defs, t, node) ==
    LET scan == ScanModelChildren(node.children, 1,
                    [model_keyword_found |-> FALSE, model_name |-> None,
                     base_model_name |-> None])
        fallback   == ModelNameFromLines(Split(Strip(node.text), "\n"))
        model_name == IF scan.model_name # None THEN scan.model_name
                      ELSE IF fallback # None /\ fallback # "" THEN fallback
                      ELSE "Unknown"
        declared   == visit_model_property_list(t, node.items)
        base       == scan.base_model_name
        properties == IF base # None /\ Has(defs, base)
                      THEN InheritedFields(Get(defs, base).fields, declared) \o declared
                      ELSE declared
    IN  Put(defs, TypeSpecDefinition(model_name, "OBJECT", properties, <<>>))

\* a string literal without its first character, its last, or both
OpenDropped(w)  == CASE w = "\"red\"" -> "red\"" [] w = "\"blue\"" -> "blue\"" [] OTHER -> w
CloseDropped(w) == CASE w = "\"red\"" -> "\"red" [] w = "\"blue\"" -> "\"blue" [] OTHER -> w
Inner(w)        == CASE w = "\"red\"" -> "red" [] w = "\"blue\"" -> "blue" [] OTHER -> w

\* text.startswith('"') and text.endswith('"'): only a string literal starts or
\* ends with a quote
Quoted(s) == s # <<>> /\ s[1] \in StringLiterals /\ s[Len(s)] \in StringLiterals

\* text[1:-1] of a quoted text
Unquote(s) ==
    IF Len(s) = 1 THEN <<Inner(s[1])>>
    ELSE <<OpenDropped(s[1])>> \o SubSeq(s, 2, Len(s) - 1) \o <<CloseDropped(s[Len(s)])>>

\* visit_enum_member, from the text of the enum_member node
visit_enum_member(text) ==
    LET stripped == RStrip(Strip(text), {",", ";"})
        valued   == IF Positions(stripped, {":"}) # {}
                    THEN Strip(Split(stripped, ":")[1]) ELSE stripped
    IN  Join(IF Quoted(valued) THEN Unquote(valued) ELSE valued)

\* visit_enum_member_list, and what visit_enum_statement keeps of it: the
\* members whose stripped spelling is not empty, in order
RECURSIVE visit_enum_member_list(_, _)
visit_enum_member_list(t, items) ==
    IF items = <<>> THEN <<>>
    ELSE LET m == visit_enum_member(Text(t, Head(items)[1], Head(items)[2]))
         IN  (IF m # "" THEN <<m>> ELSE <<>>) \o visit_enum_member_list(t, Tail(items))

\* generic_visit of the decorator_list? child of a statement, as far as it is
\* an identifier node: visit_identifier returns the node and generic_visit
\* hands a single result up as it is, several as a list, none as None
VisitedDecorators(node) ==
    IF Len(node.decorators) = 1
    THEN <<Node("identifier", <<node.decorators[1]>>, <<>>)>> ELSE <<>>

\* visit_enum_statement: self.definitions after the visit of an enum_statement
\* node.  The enum name is the text of the first visited child that is an
\* identifier node.
visit_enum_statement(defs, t, node) ==
    LET ids       == VisitedDecorators(node)
                     \o SelectSeq(node.children, LAMBDA c : c.expr_name = "identifier")
        stripped  == Strip(node.text)
        parts     == SplitBlanks(stripped)
        fallback  == IF StartsWith(stripped, <<"enum", " ">>) /\ Len(parts) > 1
                     THEN Join(Strip(Split(parts[2], "{")[1])) ELSE ""
        enum_name == IF ids # <<>> THEN Join(ids[1].text)
                     ELSE IF fallback # "" THEN fallback ELSE "Unknown"
        members   == visit_enum_member_list(t, node.items)
    IN  Put(defs, TypeSpecDefinition(enum_name, "ENUM", <<>>, members))

\* NodeVisitor.visit over the statements of the tree, depth first and in order
VisitStatement(defs, t, node) ==
    CASE node.rule = "model_statement" -> visit_model_statement(defs, t, node)
      [] node.rule = "enum_statement"  -> visit_enum_statement(defs, t, node)
      [] OTHER                         -> defs

RECURSIVE VisitStatements(_, _, _)
VisitStatements(defs, t, statements) ==
    IF statements = <<>> THEN defs
    ELSE VisitStatements(VisitStatement(defs, t, Head(statements)), t, Tail(statements))

\* parse_typespec, lines 427-429: the definitions of a fresh visitor after it
\* has visited the tree
VisitTree(content, tree) ==
    IF tree.ok
    THEN [raised |-> FALSE, definitions |-> VisitStatements(<<>>, content, tree.statements)]
    ELSE [raised |-> TRUE, definitions |-> <<>>]

\* parse_typespec: raises when Grammar.parse does
parse_typespec(content) == VisitTree(content, GrammarParse(content))

-----------------------------------------------------------------------------
(* The source texts given to parse.  A source is written from declarations:  *)
(* a sequence of statements, each a model (name, heritage, properties), an   *)
(* enum (name, members) or a span that no statement rule matches.            *)

\* the longest statement sequence of a source
MaxStmts == 2

\* a property `name: type<suffix>`.  decorator: the name of a decorator before
\* it; early: the optional marker stands between name and colon; comment: a
\* comment on the line before it
PropertyDecl(name, type, suffix) ==
    [name |-> name, type |-> type, suffix |-> suffix,
     decorator |-> None, early |-> FALSE, comment |-> None]

\* a model statement.  decorator: the name of a decorator before it
ModelDecl(name, heritage, base, props) ==
    [kind |-> "model", name |-> name, heritage |-> heritage, base |-> base,
     props |-> props, members |-> <<>>,
     decorator |-> None, decorated |-> {}, trailing |-> TRUE]

\* an enum statement.  decorated: the indices of the members written with a
\* decorator before them; trailing: a separator follows the last member
EnumDecl(name, members) ==
    [kind |-> "enum", name |-> name, heritage |-> "none", base |-> None,
     props |-> <<>>, members |-> members,
     decorator |-> None, decorated |-> {}, trailing |-> TRUE]

\* a word on its own: no statement rule matches it
JunkDecl ==
    [kind |-> "junk", name |-> "oops", heritage |-> "none", base |-> None,
     props |-> <<>>, members |-> <<>>,
     decorator |-> None, decorated |-> {}, trailing |-> TRUE]

\* a comment on a line of its own, between statements
CommentDecl(comment) ==
    [kind |-> "comment", name |-> comment, heritage |-> "none", base |-> None,
     props |-> <<>>, members |-> <<>>,
     decorator |-> None, decorated |-> {}, trailing |-> TRUE]

\* the suffixes a property type is written with
Suffixes == {"", "[]", "?", "[]?", "?[]"}

SuffixText(suffix) ==
    CASE suffix = ""    -> <<>>
      [] suffix = "[]"  -> <<"[", "]">>
      [] suffix = "?"   -> <<"?">>
      [] suffix = "[]?" -> <<"[", "]", "?">>
      [] suffix = "?[]" -> <<"?", "[", "]">>

\* the types written with an operator: unions and an intersection
UnionOfLiterals == "\"red\" | \"blue\""
UnionOfNames    == "string | Address"
Intersection    == "User & Address"

\* the lexemes a type is written with
TypeText(type) ==
    CASE type = UnionOfLiterals -> <<"\"red\"", " ", "|", " ", "\"blue\"">>
      [] type = UnionOfNames    -> <<"string", " ", "|", " ", "Address">>
      [] type = Intersection    -> <<"User", " ", "&", " ", "Address">>
      [] OTHER                  -> <<type>>

\* "@name " before what it decorates
DecoratorText(name) ==
    IF name = None THEN <<>> ELSE <<"@", name, " ">>

\* "  name: Type<suffix>;" on a line of its own
PropertyText(prop) ==
    (IF prop.comment = None THEN <<>> ELSE <<"\n", " ", prop.comment>>)
    \o <<"\n", " ">> \o DecoratorText(prop.decorator) \o <<prop.name>>
    \o (IF prop.early THEN <<"?">> ELSE <<>>)
    \o <<":", " ">> \o TypeText(prop.type) \o SuffixText(prop.suffix) \o <<";">>

RECURSIVE PropertiesText(_)
PropertiesText(props) ==
    IF props = <<>> THEN <<>>
    ELSE PropertyText(Head(props)) \o PropertiesText(Tail(props))

\* "  member," on a line of its own, from member k of the enum d on
RECURSIVE MembersText(_, _)
MembersText(d, k) ==
    IF k > Len(d.members) THEN <<>>
    ELSE <<"\n", " ">>
         \o DecoratorText(IF k \in d.decorated THEN "doc" ELSE None)
         \o <<d.members[k]>>
         \o (IF k < Len(d.members) \/ d.trailing THEN <<",">> ELSE <<>>)
         \o MembersText(d, k + 1)

\* the text of one statement, laid out as the repository's tests lay theirs out
StatementText(d) ==
    CASE d.kind = "model" ->
            DecoratorText(d.decorator) \o <<"model", " ", d.name>>
            \o (IF d.heritage = "none" THEN <<>> ELSE <<" ", d.heritage, " ", d.base>>)
            \o <<" ", "{">> \o PropertiesText(d.props) \o <<"\n", "}">>
      [] d.kind = "enum" ->
            DecoratorText(d.decorator) \o <<"enum", " ", d.name, " ", "{">>
            \o MembersText(d, 1) \o <<"\n", "}">>
      [] OTHER -> <<d.name>>

\* the text of a source: its statements, a line break after each
RECURSIVE SourceText(_)
SourceText(src) ==
    IF src = <<>> THEN <<>>
    ELSE StatementText(Head(src)) \o <<"\n">> \o SourceText(Tail(src))

EnumStatus == EnumDecl("Status", <<"active", "inactive">>)
EnumKind   == EnumDecl("Kind", <<"heavy">>)
ModelAddress == ModelDecl("Address", "none", None, <<PropertyDecl("street", "string", "")>>)
ModelUser  == ModelDecl("User", "none", None,
                  <<PropertyDecl("name", "string", ""), PropertyDecl("tags", "string", "[]")>>)
ModelAdmin == ModelDecl("Admin", "extends", "User",
                  <<PropertyDecl("role", "string", ""), PropertyDecl("name", "integer", "?")>>)

\* the statements the statement-level sources are built from
Statements == {EnumStatus, EnumKind, ModelUser, ModelAdmin, JunkDecl}

\* sources of up to MaxStmts statements
StatementSources ==
    UNION { [1..n -> Statements] : n \in 0..MaxStmts }

\* the type names a property is declared with
TypeNames == PrimitiveNames \cup {"Address"}

\* model User with the one property `tags: <type><suffix>`
OneProperty(type, suffix) ==
    ModelDecl("User", "none", None, <<PropertyDecl("tags", type, suffix)>>)

\* sources of one model with one property, of every type and suffix; for the
\* type Address: with model Address declared before, after, or nowhere
PropertySources ==
    { <<OneProperty(ty, su)>> : ty \in TypeNames, su \in Suffixes }
    \cup { <<ModelAddress, OneProperty("Address", su)>> : su \in Suffixes }
    \cup { <<OneProperty("Address", su), ModelAddress>> : su \in Suffixes }

Sources == StatementSources \cup PropertySources

\* model User with the given properties
UserWith(props) == ModelDecl("User", "none", None, props)

\* statements that declare the names User and Status in several ways: as
\* models of different properties, as enums of different members (the second
\* without a separator after its last member), and User as an enum
RedeclaredForms ==
    { ModelUser,
      UserWith(<<PropertyDecl("role", "integer", "?")>>),
      EnumDecl("User", <<"heavy">>),
      EnumStatus,
      [EnumDecl("Status", <<"heavy", "active", "inactive">>) EXCEPT !.trailing = FALSE] }

\* sources of up to MaxStmts such statements
RedeclaredSources ==
    UNION { [1..n -> RedeclaredForms] : n \in 0..MaxStmts }

\* the types written with an operator
OperatorTypes == {UnionOfLiterals, UnionOfNames, Intersection}

\* statements written in the notations of the grammar beyond `name: Type`:
\* a decorator before a statement, a property or an enum member, the optional
\* marker before the colon, a union or intersection type, a comment before a
\* property, an enum without a trailing separator
SyntaxForms ==
    LET name == PropertyDecl("name", "string", "")
        tags == PropertyDecl("tags", "string", "[]")
    IN  { ModelUser, EnumStatus,
          [ModelUser EXCEPT !.decorator = "doc"],
          UserWith(<<[name EXCEPT !.decorator = "doc"], tags>>),
          UserWith(<<[name EXCEPT !.decorator = "key"], tags>>),
          UserWith(<<name, [tags EXCEPT !.decorator = "key"]>>),
          UserWith(<<[name EXCEPT !.early = TRUE], tags>>),
          [EnumStatus EXCEPT !.decorator = "doc"],
          [EnumStatus EXCEPT !.decorated = {1}],
          [EnumStatus EXCEPT !.decorated = {2}, !.trailing = FALSE] }
        \cup { UserWith(<<name, [tags EXCEPT !.comment = c]>>) : c \in Comments }
        \cup { UserWith(<<[name EXCEPT !.type = ty], tags>>) : ty \in OperatorTypes }

\* sources of one such statement, alone or after model Address, and sources
\* with a comment before, between or after statements
SyntaxSources ==
    { <<f>> : f \in SyntaxForms }
    \cup { <<ModelAddress, f>> : f \in SyntaxForms }
    \cup { <<CommentDecl(c), ModelUser>> : c \in Comments }
    \cup { <<ModelUser, CommentDecl(c), EnumStatus>> : c \in Comments }
    \cup { <<EnumStatus, CommentDecl(c)>> : c \in Comments }

-----------------------------------------------------------------------------
(* TypeSpecParser *)

\* a parse that keeps filling the table of the calls before it
KeepTable(old) == old

\* _parse_with_parsimonious, line 78: self.definitions = {}
FreshTable(old) == <<>>

\* _parse_with_parsimonious, the loop of lines 79-97: every parsed definition is
\* copied under its key, as an ENUM with the values or as an OBJECT with the fields
RECURSIVE CopyDefinitions(_, _)
CopyDefinitions(table, parsed) ==
    IF parsed = <<>> THEN table
    ELSE LET d    == Head(parsed)
             copy == IF d.type = "ENUM"
                     THEN TypeSpecDefinition(d.name, "ENUM", <<>>, d.values)
                     ELSE TypeSpecDefinition(d.name, "OBJECT", d.fields, <<>>)
         IN  CopyDefinitions(Put(table, copy), Tail(parsed))

\* _parse_with_parsimonious after parse_typespec: whether it raised, and
\* self.definitions (untouched when parse_typespec raised, before line 78)
StoreParsed(old, parsed) ==
    IF parsed.raised
    THEN [raised |-> TRUE, definitions |-> old]
    ELSE [raised |-> FALSE,
          definitions |-> CopyDefinitions(FreshTable(old), parsed.definitions)]

\* _parse_with_parsimonious
_parse_with_parsimonious(old, content) == StoreParsed(old, parse_typespec(content))

\* _map_type
_map_type(typespec_type) ==
    CASE typespec_type = "string"  -> "str"
      [] typespec_type = "integer" -> "int"
      [] typespec_type = "boolean" -> "bool"
      [] typespec_type = "object"  -> "object"
      [] OTHER                     -> "str"

\* `if field.reference:` : a reference that is neither None nor the empty str
HasReference(f) == f.reference # None /\ f.reference # ""

\* _generate_field, the element type: the reference, else the mapped type
ElementType(f) == IF HasReference(f) THEN f.reference ELSE _map_type(f.type)

\* a _generate_field that looks at is_optional before is_array
GenerateFieldOptionalFirst(f) ==
    LET python_type ==
            IF f.is_optional THEN "Optional[" \o ElementType(f) \o "]"
            ELSE IF f.is_array THEN "List[" \o ElementType(f) \o "]"
            ELSE ElementType(f)
    IN  f.name \o ": " \o python_type

\* _generate_field
_generate_field(f) ==
    LET python_type ==
            IF f.is_array THEN "List[" \o ElementType(f) \o "]"
            ELSE IF f.is_optional THEN "Optional[" \o ElementType(f) \o "]"
            ELSE ElementType(f)
    IN  f.name \o ": " \o python_type

\* an enum class whose members are named by their raw spelling
GenerateEnumRawNames(definition) ==
    <<"class " \o definition.name \o "(Enum):">> \o
    (IF definition.values = <<>> THEN <<"    pass">>
     ELSE [i \in 1..Len(definition.values) |->
             "    " \o definition.values[i] \o " = '" \o definition.values[i] \o "'"])

\* _generate_enum: the lines of the enum class (the method joins them with "\n")
_generate_enum(definition) ==
    <<"class " \o definition.name \o "(Enum):">> \o
    (IF definition.values = <<>> THEN <<"    pass">>
     ELSE [i \in 1..Len(definition.values) |->
             "    " \o Join(_normalize_enum_member(<<definition.values[i]>>))
                    \o " = '" \o definition.values[i] \o "'"])

\* _generate_dataclass: the lines of the dataclass
_generate_dataclass(definition) ==
    <<"@dataclass", "class " \o definition.name \o ":">> \o
    (IF definition.fields = <<>> THEN <<"    pass">>
     ELSE [i \in 1..Len(definition.fields) |->
             "    " \o _generate_field(definition.fields[i])])

\* generate_dataclasses, one of its two loops: for every definition of the given
\* type, in table order, its declaration and an empty line
RECURSIVE GenerateOfType(_, _)
GenerateOfType(table, type) ==
    IF table = <<>> THEN <<>>
    ELSE (IF Head(table).type = type
          THEN << IF type = "ENUM" THEN _generate_enum(Head(table))
                  ELSE _generate_dataclass(Head(table)),
                  <<"">> >>
          ELSE <<>>)
         \o GenerateOfType(Tail(table), type)

\* the import lines and the two empty lines generate_dataclasses starts with
Preamble ==
    << <<"from dataclasses import dataclass">>,
       <<"from typing import List, Optional">>,
       <<"from enum import Enum">>,
       <<"">>, <<"">> >>

\* a generate_dataclasses with one loop: every definition in table order
RECURSIVE GenerateEach(_)
GenerateEach(table) ==
    IF table = <<>> THEN <<>>
    ELSE GenerateOfType(<<Head(table)>>, Head(table).type) \o GenerateEach(Tail(table))

GenerateInTableOrder(table) ==
    IF table = <<>> THEN <<>> ELSE Preamble \o GenerateEach(table)

\* a generator that renders the table once and returns "" for every call after
\* it, until the next parse
GenerateOnce(table) ==
    IF output # << <<None>> >> THEN <<>>
    ELSE IF table = <<>> THEN <<>>
    ELSE Preamble \o GenerateOfType(table, "ENUM") \o GenerateOfType(table, "OBJECT")

\* generate_dataclasses: the entries of `result`, each as its lines; the text
\* returned is all the lines joined with "\n", and "" for an empty table
generate_dataclasses(table) ==
    IF table = <<>> THEN <<>>
    ELSE Preamble \o GenerateOfType(table, "ENUM") \o GenerateOfType(table, "OBJECT")

-----------------------------------------------------------------------------
(* The parser instance and its callers *)

\* output when generate_dataclasses has not been called since the last parse
NoOutput == << <<None>> >>

\* the keys of a table
Names(table) == { table[i].name : i \in 1..Len(table) }

\* no field is under the emitter yet
NoField == TypeSpecField(None, None, FALSE, FALSE, None)

\* _normalize_enum_member has not been called on the spelling yet
NoSymbol == <<None>>

\* no further instance is part of the behaviour
InstancesUnused ==
    /\ heap = <<>>
    /\ instance = <<>>
    /\ held = {}

\* no PEGParser is part of the behaviour
CursorUnused ==
    /\ script = <<>>
    /\ pos = 0
    /\ peg = <<>>

\* _parse_with_lines has not been called for the last source
NotScanned == [done |-> FALSE, table |-> <<>>]

\* no line scan is part of the behaviour
ScannerUnused == scanned = NotScanned

\* no other instance, no PEGParser and no line scan is part of the behaviour
OthersUnused == InstancesUnused /\ CursorUnused /\ ScannerUnused

\* the one instance after TypeSpecParser(), and no call of a static method
Constructed ==
    /\ definitions = <<>>
    /\ source = <<>>
    /\ returned = <<>>
    /\ raised = FALSE
    /\ entry = {}
    /\ output = NoOutput
    /\ field = NoField
    /\ fieldText = None
    /\ spelling = <<>>
    /\ symbol = NoSymbol
    /\ again = NoSymbol

Init == Constructed /\ OthersUnused

\* parse, after _parse_with_parsimonious ended as r: it returns
\* self.definitions, or the exception goes to the caller
ParseEnds(src, r) ==
    /\ definitions' = r.definitions
    /\ raised' = r.raised
    /\ returned' = IF r.raised THEN <<>> ELSE r.definitions
    /\ source' = src
    /\ entry' = Names(definitions)
    /\ output' = NoOutput
    /\ UNCHANGED <<instanceVars, pegVars, scanned, field, fieldText, spelling, symbol, again>>

\* parser.parse(text), for the text of a source, on the one instance
Parse(src) == ParseEnds(src, _parse_with_parsimonious(definitions, SourceText(src)))

\* parser.generate_dataclasses()
Generate ==
    /\ output' = generate_dataclasses(definitions)
    /\ UNCHANGED <<instanceVars, pegVars, scanned, definitions, source, returned, raised, entry, field, fieldText,
                   spelling, symbol, again>>

Next ==
    \/ \E src \in Sources : Parse(src)
    \/ Generate

Spec == Init /\ [][Next]_vars

\* the same instance, given sources that declare a name more than once
NextRedeclared ==
    \/ \E src \in RedeclaredSources : Parse(src)
    \/ Generate

SpecRedeclared == Init /\ [][NextRedeclared]_vars

\* the same instance, given the sources of SyntaxSources
NextSyntax == \E src \in SyntaxSources : Parse(src)

SpecSyntax == Init /\ [][NextSyntax]_vars

-----------------------------------------------------------------------------
(* The emitter on its own: _generate_field applied to any TypeSpecField *)

\* the fields handed to _generate_field: a primitive type without a reference,
\* or the type object with the name of a definition as reference
EmitterFields ==
    { TypeSpecField(n, ty, opt, arr, None) :
        n \in {"name", "tags", "role"}, ty \in {"string", "integer", "boolean"},
        opt \in BOOLEAN, arr \in BOOLEAN }
    \cup
    { TypeSpecField(n, "object", opt, arr, ref) :
        n \in {"name", "tags", "role"}, ref \in {"Address", "User", "Status"},
        opt \in BOOLEAN, arr \in BOOLEAN }

InitEmit ==
    /\ OthersUnused
    /\ field \in EmitterFields
    /\ fieldText = None
    /\ definitions = <<>>
    /\ source = <<>>
    /\ returned = <<>>
    /\ raised = FALSE
    /\ entry = {}
    /\ output = NoOutput
    /\ spelling = <<>>
    /\ symbol = NoSymbol
    /\ again = NoSymbol

\* a caller builds another field
PickField(f) ==
    /\ field' = f
    /\ fieldText' = None
    /\ UNCHANGED <<instanceVars, pegVars, scanned, definitions, source, returned, raised, entry, output,
                   spelling, symbol, again>>

\* parser._generate_field(field)
GenerateField ==
    /\ fieldText' = _generate_field(field)
    /\ UNCHANGED <<instanceVars, pegVars, scanned, definitions, source, returned, raised, entry, output, field,
                   spelling, symbol, again>>

NextEmit ==
    \/ \E f \in EmitterFields : PickField(f)
    \/ GenerateField

SpecEmit == InitEmit /\ [][NextEmit]_vars

-----------------------------------------------------------------------------
(* The normalisation on its own: _normalize_enum_member applied to any       *)
(* spelling, and to what it returned                                         *)

\* the longest spelling, in pieces
MaxLen == 3

\* the pieces a spelling is made of: letters of either case, the two
\* characters the method replaces, and the one it replaces them with
Pieces == {"a", "B", "-", " ", "_"}

Spellings == UNION { [1..n -> Pieces] : n \in 0..MaxLen }

InitNormalize ==
    /\ OthersUnused
    /\ spelling \in Spellings
    /\ symbol = NoSymbol
    /\ again = NoSymbol
    /\ definitions = <<>>
    /\ source = <<>>
    /\ returned = <<>>
    /\ raised = FALSE
    /\ entry = {}
    /\ output = NoOutput
    /\ field = NoField
    /\ fieldText = None

\* a caller has another spelling
PickSpelling(s) ==
    /\ spelling' = s
    /\ symbol' = NoSymbol
    /\ again' = NoSymbol
    /\ UNCHANGED <<instanceVars, pegVars, scanned, definitions, source, returned, raised, entry, output, field, fieldText>>

\* _normalize_enum_member(spelling)
Normalize ==
    /\ symbol' = _normalize_enum_member(spelling)
    /\ again' = NoSymbol
    /\ UNCHANGED <<instanceVars, pegVars, scanned, definitions, source, returned, raised, entry, output, field, fieldText,
                   spelling>>

\* _normalize_enum_member of what the last call returned
NormalizeAgain ==
    /\ symbol # NoSymbol
    /\ again' = _normalize_enum_member(symbol)
    /\ UNCHANGED <<instanceVars, pegVars, scanned, definitions, source, returned, raised, entry, output, field, fieldText,
                   spelling, symbol>>

NextNormalize ==
    \/ \E s \in Spellings : PickSpelling(s)
    \/ Normalize
    \/ NormalizeAgain

SpecNormalize == InitNormalize /\ [][NextNormalize]_vars

-----------------------------------------------------------------------------
(* What a source declares, and where the table stores it *)

\* the model and enum statements of a source
IsDeclaration(d) == d.kind \in {"model", "enum"}

\* the names a source declares
DeclaredNames(src) == { src[i].name : i \in { i \in 1..Len(src) : IsDeclaration(src[i]) } }

\* the last statement of src that declares name
LastDeclaration(src, name) ==
    src[CHOOSE i \in 1..Len(src) :
          /\ IsDeclaration(src[i]) /\ src[i].name = name
          /\ \A j \in (i + 1)..Len(src) : ~(IsDeclaration(src[j]) /\ src[j].name = name)]

\* the model declarations of src that the table is to hold: for every declared
\* model name, its last declaration
ModelsOf(src) ==
    { d \in { LastDeclaration(src, n) : n \in DeclaredNames(src) } : d.kind = "model" }

\* the field the table holds for property k of model declaration d: a model's
\* own properties are the last fields of its definition
StoredField(table, d, k) ==
    LET fields == Get(table, d.name).fields
    IN  fields[Len(fields) - Len(d.props) + k]

\* the last parse call returned a table
Parsed == ~raised /\ returned = definitions

\* the properties of the last source's models that are written with one of the
\* given suffixes, as pairs <<declaration, index>>
PropertiesWith(suffixes) ==
    { <<d, k>> \in UNION { {d} \X (1..Len(d.props)) : d \in ModelsOf(source) } :
        d.props[k].suffix \in suffixes }

\* the declarations of the text generate_dataclasses returned, in order: the
\* entries of its result between the empty lines, after the five preamble entries
Declarations(out) ==
    [k \in 1..((Len(out) - Len(Preamble)) \div 2) |-> out[Len(Preamble) + 2 * k - 1]]

\* the line generate_dataclasses wrote for field k of the model d
FieldLine(out, table, d, k) ==
    LET at    == CHOOSE i \in 1..Len(Declarations(out)) :
                    /\ Len(Declarations(out)[i]) >= 2
                    /\ Declarations(out)[i][2] = "class " \o d.name \o ":"
        fields == Get(table, d.name).fields
    IN  Declarations(out)[at][2 + Len(fields) - Len(d.props) + k]

-----------------------------------------------------------------------------
(* Claims *)

\* C1: after a successful parse call the instance's table, which is the table
\* the call returned, holds exactly the definitions the last input declares,
\* each of the kind of its last declaration there: nothing of an earlier
\* call's input is left in it.
C1_TableIsLastInput ==
    ~raised =>
        /\ returned = definitions
        /\ Names(definitions) = DeclaredNames(source)
        /\ \A i \in 1..Len(definitions) :
              definitions[i].type =
                IF LastDeclaration(source, definitions[i].name).kind = "enum"
                THEN "ENUM" ELSE "OBJECT"

\* C1 witness: a successful parse on an instance whose table, when the call
\* started, held a definition that the new input does not declare
C1_Witness ==
    /\ ~raised
    /\ definitions # <<>>
    /\ entry \ DeclaredNames(source) # {}

\* C2: parse never raises, whatever the text.
C2_NeverRaises == ~raised

\* C3: when the input is well-formed statements followed by a span that matches
\* no statement, parse produces a table that holds every definition declared
\* before that span.
C3_KeepsDefinitionsBeforeFailure ==
    \A k \in 2..Len(source) :
        (source[k].kind = "junk" /\ \A j \in 1..(k - 1) : IsDeclaration(source[j]))
        => /\ ~raised
           /\ \A j \in 1..(k - 1) : Has(returned, source[j].name)

\* C4: generate_dataclasses renders every definition of the table exactly once,
\* all enums before all models, the enums in table order and the models in
\* table order.
C4_EnumsThenModels ==
    LET enums  == SelectSeq(definitions, LAMBDA d : d.type = "ENUM")
        models == SelectSeq(definitions, LAMBDA d : d.type = "OBJECT")
        decls  == Declarations(output)
    IN  (output # NoOutput /\ definitions # <<>>) =>
            /\ Len(output) = Len(Preamble) + 2 * Len(definitions)
            /\ Len(decls) = Len(enums) + Len(models)
            /\ \A k \in 1..Len(enums) :
                  decls[k][1] = "class " \o enums[k].name \o "(Enum):"
            /\ \A k \in 1..Len(models) :
                  /\ decls[Len(enums) + k][1] = "@dataclass"
                  /\ decls[Len(enums) + k][2] = "class " \o models[k].name \o ":"

\* C4 witness: a generated text for a table in which a model was inserted
\* before an enum
C4_Witness ==
    /\ output # NoOutput
    /\ \E i, j \in 1..Len(definitions) :
          i < j /\ definitions[i].type = "OBJECT" /\ definitions[j].type = "ENUM"

\* the element type C5 names: the reference when the field has one, else
\* str for string, int for integer, bool for boolean
C5_Element(f) ==
    IF f.reference # None THEN f.reference
    ELSE CASE f.type = "string" -> "str" [] f.type = "integer" -> "int"
           [] f.type = "boolean" -> "bool"

\* C5: a field is emitted as List[E] when is_array (also when is_optional is set
\* as well), else as Optional[E] when is_optional, else as E bare.
C5_ArrayBeforeOptional ==
    fieldText # None =>
        /\ field.is_array =>
              fieldText = field.name \o ": List[" \o C5_Element(field) \o "]"
        /\ (~field.is_array /\ field.is_optional) =>
              fieldText = field.name \o ": Optional[" \o C5_Element(field) \o "]"
        /\ (~field.is_array /\ ~field.is_optional) =>
              fieldText = field.name \o ": " \o C5_Element(field)

\* C5 witness: the text of a field that is both an array and optional
C5_Witness == fieldText # None /\ field.is_array /\ field.is_optional

\* C6: a property declared with the type string, integer or boolean (and at
\* most one suffix) is stored with that type and no reference; with int32, with
\* the type integer and no reference; with any other name N, with the type
\* object and the reference N.
C6_TypeClassification ==
    Parsed =>
        \A dk \in PropertiesWith({"", "[]", "?"}) :
            LET T == dk[1].props[dk[2]].type
                f == StoredField(definitions, dk[1], dk[2])
            IN  /\ T \in {"string", "integer", "boolean"} => (f.type = T /\ f.reference = None)
                /\ T = "int32" => (f.type = "integer" /\ f.reference = None)
                /\ T \notin {"string", "integer", "boolean", "int32"} =>
                      (f.type = "object" /\ f.reference = T)

\* the text generate_dataclasses writes for a reference to name under a suffix
C7_Written(name, suffix) ==
    CASE suffix = ""   -> name
      [] suffix = "[]" -> "List[" \o name \o "]"
      [] suffix = "?"  -> "Optional[" \o name \o "]"

\* C7: a property whose type is the name of a definition (declared earlier,
\* later or nowhere in the source) is stored as a reference to that name, and
\* generate_dataclasses writes the name as it is, bare or inside List[..] or
\* Optional[..].
C7_ReferenceVerbatim ==
    Parsed =>
        \A dk \in PropertiesWith({"", "[]", "?"}) :
            LET p == dk[1].props[dk[2]]
                f == StoredField(definitions, dk[1], dk[2])
            IN  p.type \notin PrimitiveNames =>
                  /\ f.type = "object" /\ f.reference = p.type
                  /\ output # NoOutput =>
                        FieldLine(output, definitions, dk[1], dk[2])
                          = "    " \o p.name \o ": " \o C7_Written(p.type, p.suffix)

\* C7 witness: the generated text of a source whose property refers, as an
\* array, to a model that is declared after it
C7_Witness ==
    /\ Parsed
    /\ output # NoOutput
    /\ source = <<OneProperty("Address", "[]"), ModelAddress>>

\* the names of a sequence of fields or properties
FieldNames(fields) == [i \in 1..Len(fields) |-> fields[i].name]

\* C8: a model declared `extends Base`, Base being a model declared earlier in
\* the source, has the fields of Base that it does not declare itself, in
\* Base's order, followed by its own declared fields.
C8_InheritsBaseFields ==
    Parsed =>
        \A i, j \in 1..Len(source) :
            (/\ i < j
             /\ source[i].kind = "model" /\ source[j].kind = "model"
             /\ source[j].heritage = "extends" /\ source[j].base = source[i].name
             /\ source[j] \in ModelsOf(source) /\ source[i] \in ModelsOf(source))
            => FieldNames(Get(definitions, source[j].name).fields)
                 = FieldNames(SelectSeq(source[i].props,
                       LAMBDA b : \A k \in 1..Len(source[j].props) :
                                     source[j].props[k].name # b.name))
                   \o FieldNames(source[j].props)

\* C9: a property type with at most one suffix sets the flags from the suffix
\* alone (T[] an array, T? optional, T neither), and the stored type or
\* reference is T without the suffix.
C9_SingleSuffix ==
    Parsed =>
        \A dk \in PropertiesWith({"", "[]", "?"}) :
            LET p == dk[1].props[dk[2]]
                f == StoredField(definitions, dk[1], dk[2])
            IN  /\ f.is_array = (p.suffix = "[]")
                /\ f.is_optional = (p.suffix = "?")
                /\ IF p.type \in PrimitiveNames
                   THEN f.type = p.type /\ f.reference = None
                   ELSE f.reference = p.type

\* C9 witness: a parsed source with an array property of a primitive type and
\* an optional property
C9_Witness ==
    /\ Parsed
    /\ \E dk \in PropertiesWith({"[]"}) : dk[1].props[dk[2]].type \in PrimitiveNames
    /\ PropertiesWith({"?"}) # {}

\* C10: a property type written with both suffixes, T[]? or T?[], is accepted
\* and stored with is_array and is_optional both set and the bare T as its
\* type or reference.
C10_BothSuffixes ==
    \A d \in ModelsOf(source) : \A k \in 1..Len(d.props) :
        d.props[k].suffix \in {"[]?", "?[]"} =>
            /\ Parsed
            /\ LET p == d.props[k]
                   f == StoredField(definitions, d, k)
               IN  /\ f.is_array /\ f.is_optional
                   /\ IF p.type \in PrimitiveNames
                      THEN f.type = p.type /\ f.reference = None
                      ELSE f.reference = p.type

-----------------------------------------------------------------------------
(* Enum member normalisation (SpecNormalize) *)

\* the characters the normalisation replaces
Separators == {"-", " "}

\* s without the separators it starts with
RECURSIVE DropSeparators(_)
DropSeparators(s) ==
    IF s # <<>> /\ Head(s) \in Separators THEN DropSeparators(Tail(s)) ELSE s

\* s upper-cased, every maximal run of separators written as one underscore
RECURSIVE RunsCollapsed(_)
RunsCollapsed(s) ==
    IF s = <<>> THEN <<>>
    ELSE IF Head(s) \in Separators
         THEN <<"_">> \o RunsCollapsed(DropSeparators(s))
         ELSE <<Upper(Head(s))>> \o RunsCollapsed(Tail(s))

\* C13, as claimed: the symbolic name is the spelling upper-cased with each
\* maximal run of hyphens and spaces replaced by one underscore.
C13_RunBecomesOneUnderscore ==
    symbol # NoSymbol => symbol = RunsCollapsed(spelling)

\* C13, amended: the symbolic name is the spelling upper-cased with each hyphen
\* and each space replaced by one underscore, so it is as long as the spelling
\* and a run of n separators becomes n underscores.
C13_EachSeparatorBecomesUnderscore ==
    symbol # NoSymbol =>
        /\ Len(symbol) = Len(spelling)
        /\ \A i \in 1..Len(spelling) :
              symbol[i] = IF spelling[i] \in Separators THEN "_" ELSE Upper(spelling[i])

\* a spelling with two separators in a row has been normalised
C13_Witness ==
    /\ symbol # NoSymbol
    /\ \E i \in 1..(Len(spelling) - 1) :
          spelling[i] \in Separators /\ spelling[i + 1] \in Separators

\* C14: normalising what the normalisation returned gives it back unchanged.
C14_Idempotent ==
    again # NoSymbol => again = symbol

\* a spelling the normalisation changes has been normalised twice
C14_Witness ==
    again # NoSymbol /\ symbol # spelling

-----------------------------------------------------------------------------
(* Notations of the grammar (SpecSyntax) *)

\* the last parse call ended as the parse r of another text does, on a fresh
\* instance: both raise, or both return the same table
SameOutcome(r) == raised = r.raised /\ (~raised => definitions = r.definitions)

\* the outcome of parse on a fresh instance, for the text of src
FreshParse(src) == _parse_with_parsimonious(<<>>, SourceText(src))

\* the properties of the last source's model statements, as pairs
\* <<declaration, index>>
WrittenProperties ==
    UNION { {source[i]} \X (1..Len(source[i].props)) :
              i \in { i \in 1..Len(source) : source[i].kind = "model" } }

\* C11: a property written with the optional marker between its name and the
\* colon is accepted, and stored as an optional field under the bare name.
C11_EarlyMarkerAccepted ==
    \A <<d, k>> \in WrittenProperties :
        d.props[k].early =>
            /\ ~raised
            /\ Has(definitions, d.name)
            /\ StoredField(definitions, d, k).name = d.props[k].name
            /\ StoredField(definitions, d, k).is_optional

\* C16: a property whose type is a union of string literals is stored as a
\* field of the primitive string without a reference; a property whose type is
\* another union or an intersection is stored as a field with a reference.
C16_UnionTypes ==
    Parsed =>
        \A <<d, k>> \in WrittenProperties :
            /\ d.props[k].type = UnionOfLiterals =>
                  /\ StoredField(definitions, d, k).type = "string"
                  /\ StoredField(definitions, d, k).reference = None
            /\ d.props[k].type \in OperatorTypes \ {UnionOfLiterals} =>
                  /\ StoredField(definitions, d, k).type = "object"
                  /\ StoredField(definitions, d, k).reference # None

\* a property or enum member without the decorator it is written with, unless
\* the decorator is @key
PlainProperty(prop) ==
    IF prop.decorator = "key" THEN prop ELSE [prop EXCEPT !.decorator = None]

\* a source without its decorators other than @key
Undecorated(src) ==
    [i \in 1..Len(src) |->
        [src[i] EXCEPT !.decorator = None, !.decorated = {},
                       !.props = [k \in 1..Len(src[i].props) |-> PlainProperty(src[i].props[k])]]]

\* C17: a source with decorators other than @key before its statements,
\* properties or enum members gives the table that the same source without
\* them gives.
C17_DecoratorsChangeNothing ==
    SameOutcome(FreshParse(Undecorated(source)))

\* _parse_field, lines 314-316: the marker put before the name of a key field
KeyMarker == "@key "

\* C18: a property written after @key is stored under its name with the marker
\* before it, and a property written without @key under its name alone.
C18_KeyMarkerStored ==
    Parsed =>
        \A <<d, k>> \in WrittenProperties :
            StoredField(definitions, d, k).name =
                IF d.props[k].decorator = "key"
                THEN KeyMarker \o d.props[k].name ELSE d.props[k].name

\* a source without the comments between its statements and before its
\* properties
Uncommented(src) ==
    LET kept == SelectSeq(src, LAMBDA d : d.kind # "comment")
    IN  [i \in 1..Len(kept) |->
            [kept[i] EXCEPT !.props = [k \in 1..Len(kept[i].props) |->
                                          [kept[i].props[k] EXCEPT !.comment = None]]]]

\* C20: a source with comments of either style between its statements or
\* between its properties is parsed as the same source without them is: parse
\* does not fail on it and returns the same table.
C20_CommentsSkipped ==
    SameOutcome(FreshParse(Uncommented(source)))

-----------------------------------------------------------------------------
(* Enums, field order and redeclared names *)

\* the enum declarations of src that the table is to hold: for every declared
\* name whose last declaration is an enum, that declaration
EnumsOf(src) ==
    { d \in { LastDeclaration(src, n) : n \in DeclaredNames(src) } : d.kind = "enum" }

\* the lines generate_dataclasses wrote for the enum of the given name, after
\* the class line
EnumLines(out, name) ==
    LET at == CHOOSE i \in 1..Len(Declarations(out)) :
                 Declarations(out)[i][1] = "class " \o name \o "(Enum):"
    IN  Tail(Declarations(out)[at])

\* C12: the values of an enum in the table are the raw spellings of its members
\* in declaration order, with or without a separator after the last one, and
\* generate_dataclasses writes one line per member in that order, the
\* upper-cased spelling as the name and the raw spelling as the quoted value.
C12_EnumMembersInOrder ==
    Parsed =>
        \A d \in EnumsOf(source) :
            /\ Get(definitions, d.name).values = d.members
            /\ output # NoOutput =>
                  EnumLines(output, d.name) =
                      [k \in 1..Len(d.members) |->
                          "    " \o Upper(d.members[k]) \o " = '" \o d.members[k] \o "'"]

\* the dataclasses were generated from an enum of several members, written
\* without a separator after the last
C12_Witness ==
    /\ Parsed /\ output # NoOutput
    /\ \E d \in EnumsOf(source) : Len(d.members) >= 2 /\ ~d.trailing

C19_LastDeclarationWins ==
    Parsed =>
        \A n \in DeclaredNames(source) :
            /\ Cardinality({ i \in 1..Len(definitions) : definitions[i].name = n }) = 1
            /\ Get(definitions, n).type =
                  (IF LastDeclaration(source, n).kind = "enum" THEN "ENUM" ELSE "OBJECT")
            /\ Get(definitions, n).values = LastDeclaration(source, n).members
            /\ [k \in 1..Len(Get(definitions, n).fields) |->
                    <<Get(definitions, n).fields[k].name, Get(definitions, n).fields[k].type>>]
               = [k \in 1..Len(LastDeclaration(source, n).props) |->
                    <<LastDeclaration(source, n).props[k].name,
                      LastDeclaration(source, n).props[k].type>>]

\* a source that declares one name twice, in different ways, has been parsed
C19_Witness ==
    /\ Parsed
    /\ \E i, j \in 1..Len(source) :
          /\ i < j /\ source[i].name = source[j].name
          /\ source[i].kind # source[j].kind

-----------------------------------------------------------------------------
(* generate_dataclasses and the table; the table after a failing parse *)

C22_FailedParseLeavesNothing ==
    raised =>
        /\ definitions = <<>>
        /\ output # NoOutput => output = <<>>

-----------------------------------------------------------------------------
(* Several TypeSpecParser instances, each called by a thread of its own.   *)
(* A dict is an object of the heap; self.definitions holds its address,    *)
(* and so does a caller that keeps what parse returned.  A thread can be   *)
(* preempted between any two statements of _parse_with_parsimonious.       *)

\* the instances, one per thread
Instances == {"p", "q"}

\* the parse calls of a behaviour, all instances together
MaxCalls == 3

\* the sources the threads parse
InstanceSources ==
    { <<EnumStatus, ModelUser>>, <<ModelUser, EnumKind>>, <<ModelAddress>>, <<JunkDecl>> }

\* a definitions attribute of the class, the same dict for every instance
ClassDefinitions(i) == instance["p"].definitions

\* self.definitions, read
SelfDefinitions(i) == instance[i].definitions

\* self.definitions.clear(): the dict the instance has is emptied
ClearedDict(h, at) == [heap |-> [h EXCEPT ![at] = <<>>], at |-> at]

\* self.definitions = {} (line 78): a new dict, and the attribute bound to it
NewDict(h, at) == [heap |-> Append(h, FreshTable(h[at])), at |-> Len(h) + 1]

\* items() of a dict whose order depends on the instance
ItemsPerInstance(i, parsed) ==
    IF i = "p" THEN parsed ELSE [k \in 1..Len(parsed) |-> parsed[Len(parsed) + 1 - k]]

\* parsimonious_definitions.items() (line 79): the entries in insertion order
Items(i, parsed) == parsed

\* the state of an instance after __init__, its dict at the given address
Idle(at) ==
    [definitions |-> at, pc |-> "idle", content |-> <<>>, parsed |-> <<>>,
     result |-> 0, raised |-> FALSE, calls |-> 0, overlapped |-> FALSE]

\* TypeSpecParser() for every instance: line 52, a dict each
InitInstances ==
    /\ heap = << <<>>, <<>> >>
    /\ instance = [i \in Instances |-> Idle(IF i = "p" THEN 1 ELSE 2)]
    /\ held = {}
    /\ Constructed /\ CursorUnused /\ ScannerUnused

\* the calls made so far
RECURSIVE CallsOf(_)
CallsOf(S) ==
    IF S = {} THEN 0
    ELSE LET i == CHOOSE i \in S : TRUE IN instance[i].calls + CallsOf(S \ {i})

\* a thread calls parse(text) on its instance; the calls in progress on the
\* other instances overlap with it
Call(i, src) ==
    /\ instance[i].pc = "idle"
    /\ CallsOf(Instances) < MaxCalls
    /\ instance' =
           [j \in Instances |->
               IF j = i
               THEN [instance[i] EXCEPT
                        !.pc = "called", !.content = src, !.parsed = <<>>,
                        !.result = 0, !.raised = FALSE, !.calls = @ + 1,
                        !.overlapped = \E o \in Instances \ {i} : instance[o].pc # "idle"]
               ELSE IF instance[j].pc # "idle"
                    THEN [instance[j] EXCEPT !.overlapped = TRUE]
                    ELSE instance[j]]
    /\ UNCHANGED <<heap, held>>

\* line 76 ended as r: the exception leaves parse, or the result is kept
GrammarEnds(i, r) ==
    /\ instance' =
           [instance EXCEPT ![i] =
               IF r.raised
               THEN [@ EXCEPT !.pc = "idle", !.raised = TRUE]
               ELSE [@ EXCEPT !.pc = "reset", !.parsed = Items(i, r.definitions)]]
    /\ UNCHANGED <<heap, held>>

\* line 76: parsimonious_definitions = parsimonious_parse(typespec_content),
\* with a Grammar and a TypeSpecVisitor of its own (parsimonious_parser.py 423-429)
ParsimoniousParse(i) ==
    /\ instance[i].pc = "called"
    /\ GrammarEnds(i, parse_typespec(SourceText(instance[i].content)))

\* line 78: self.definitions = {}
Reset(i) ==
    /\ instance[i].pc = "reset"
    /\ heap' = NewDict(heap, SelfDefinitions(i)).heap
    /\ instance' = [instance EXCEPT ![i].definitions = NewDict(heap, SelfDefinitions(i)).at,
                                     ![i].pc = "copy"]
    /\ UNCHANGED held

\* lines 79-97, one iteration: self.definitions[name] = definition
CopyOne(i) ==
    /\ instance[i].pc = "copy"
    /\ instance[i].parsed # <<>>
    /\ heap' = [heap EXCEPT ![SelfDefinitions(i)] =
                    CopyDefinitions(@, <<Head(instance[i].parsed)>>)]
    /\ instance' = [instance EXCEPT ![i].parsed = Tail(@)]
    /\ UNCHANGED held

\* line 99: return self.definitions; the caller keeps the dict it was given
Return(i) ==
    /\ instance[i].pc = "copy"
    /\ instance[i].parsed = <<>>
    /\ instance' = [instance EXCEPT ![i].result = SelfDefinitions(i), ![i].pc = "idle"]
    /\ held' = held \cup { [by |-> i, table |-> SelfDefinitions(i),
                             seen |-> heap[SelfDefinitions(i)]] }
    /\ UNCHANGED heap

NextInstances ==
    \/ \E i \in Instances, src \in InstanceSources :
          Call(i, src) /\ UNCHANGED <<vars1, pegVars, scanned>>
    \/ \E i \in Instances : ParsimoniousParse(i) /\ UNCHANGED <<vars1, pegVars, scanned>>
    \/ \E i \in Instances : Reset(i) /\ UNCHANGED <<vars1, pegVars, scanned>>
    \/ \E i \in Instances : CopyOne(i) /\ UNCHANGED <<vars1, pegVars, scanned>>
    \/ \E i \in Instances : Return(i) /\ UNCHANGED <<vars1, pegVars, scanned>>

SpecInstances == InitInstances /\ [][NextInstances]_vars

\* instance i is back from a parse call that returned
Returned(i) == instance[i].pc = "idle" /\ instance[i].result # 0

\* C23: when a parse call returns, the instance holds and the caller is given
\* the table a parse of the instance's own text alone produces, whatever the
\* other instances did in between.
C23_OwnTableOnly ==
    \A i \in Instances :
        Returned(i) =>
            /\ heap[instance[i].definitions] = FreshParse(instance[i].content).definitions
            /\ heap[instance[i].result] = FreshParse(instance[i].content).definitions

\* both instances returned from calls that overlapped, for different texts
C23_Witness ==
    /\ \A i \in Instances : Returned(i) /\ instance[i].overlapped
    /\ instance["p"].content # instance["q"].content
    /\ heap[instance["p"].result] # <<>>
    /\ heap[instance["q"].result] # <<>>

C30_ReturnedTableKept ==
    \A k \in held : heap[k.table] = k.seen

\* an instance returned a second table, different from the first its caller
\* still holds
C30_Witness ==
    \E k \in held :
        /\ Returned(k.by)
        /\ instance[k.by].result # k.table
        /\ k.seen # <<>>
        /\ heap[instance[k.by].result] # k.seen

-----------------------------------------------------------------------------
(* PEGParser (typespec_parser/peg/parser.py).  Its text is a sequence of     *)
(* characters and self.pos counts from 0 as in the source.  A method that    *)
(* moves the cursor is an operator from the text and the cursor before the   *)
(* call to the cursor after it, with what the method returns.                *)

\* str.isalpha, str.isupper, str.isalnum, for the characters of the scripts
Lowercase == {"a", "b", "d", "e", "g", "i", "l", "m", "n", "o", "r", "s", "t", "u", "x", "y"}
Uppercase == {"A", "B", "C", "D", "E", "F", "G"}
Digits == {"1"}
isalpha(c) == c \in Lowercase \cup Uppercase
isalnum(c) == isalpha(c) \/ c \in Digits

\* self.text[p]
At(t, p) == t[p + 1]

\* self.text[p : p + n], cut at the end of the text as a slice is
Slice(t, p, n) == SubSeq(t, p + 1, IF p + n <= Len(t) THEN p + n ELSE Len(t))

\* self.text[a : b] as a str
Str(t, a, b) == Join(SubSeq(t, a + 1, b))

\* the keywords and the type name the scripts spell
KwModel == <<"m", "o", "d", "e", "l">>
KwEnum == <<"e", "n", "u", "m">>
TyString == <<"s", "t", "r", "i", "n", "g">>

\* the loop `while self.pos < len(self.text) and self.text[self.pos] not in
\* stops: self.pos += 1` (lines 103, 170, 211, 222, 233, 238, 320, 361, 376)
RECURSIVE ScanTo(_, _, _)
ScanTo(t, p, stops) ==
    IF p < Len(t) /\ At(t, p) \notin stops THEN ScanTo(t, p + 1, stops) ELSE p

\* _skip_whitespace, lines 110-114: the loop over a multi-line comment
RECURSIVE SkipBlock(_, _)
SkipBlock(t, p) ==
    IF p < Len(t) - 1
    THEN IF Slice(t, p, 2) = <<"*", "/">> THEN p + 2 ELSE SkipBlock(t, p + 1)
    ELSE p

\* _skip_whitespace
RECURSIVE _skip_whitespace(_, _)
_skip_whitespace(t, p) ==
    IF p >= Len(t) THEN p
    ELSE IF At(t, p) \in Blanks THEN _skip_whitespace(t, p + 1)
    ELSE IF p + 1 < Len(t) /\ Slice(t, p, 2) = <<"/", "/">>
         THEN _skip_whitespace(t, ScanTo(t, p, {"\n"}))
    ELSE IF p + 1 < Len(t) /\ Slice(t, p, 2) = <<"/", "*">>
         THEN _skip_whitespace(t, SkipBlock(t, p))
    ELSE p

\* _match_keyword behind its _skip_whitespace: the cursor at p
KeywordAt(t, p, keyword) ==
    IF /\ p + Len(keyword) <= Len(t)
       /\ Slice(t, p, Len(keyword)) = keyword
       /\ (p + Len(keyword) >= Len(t) \/ ~isalnum(At(t, p + Len(keyword))))
    THEN [matched |-> TRUE, pos |-> p + Len(keyword)]
    ELSE [matched |-> FALSE, pos |-> p]

\* _match_keyword
_match_keyword(t, p, keyword) == KeywordAt(t, _skip_whitespace(t, p), keyword)

\* _skip_to_next_statement
RECURSIVE _skip_to_next_statement(_, _)
_skip_to_next_statement(t, p) ==
    IF p < Len(t)
    THEN IF Slice(t, p, 5) = KwModel \/ Slice(t, p, 4) = KwEnum \/ p >= Len(t) - 1
         THEN p
         ELSE _skip_to_next_statement(t, p + 1)
    ELSE p

\* _parse_identifier, lines 155-158: the characters after the first
RECURSIVE IdentifierEnd(_, _)
IdentifierEnd(t, p) ==
    IF p < Len(t) /\ (isalnum(At(t, p)) \/ At(t, p) = "_") THEN IdentifierEnd(t, p + 1) ELSE p

\* _parse_identifier behind its _skip_whitespace: start = p
IdentifierAt(t, p) ==
    IF p < Len(t) /\ (isalpha(At(t, p)) \/ At(t, p) = "_")
    THEN [pos |-> IdentifierEnd(t, p + 1), name |-> Str(t, p, IdentifierEnd(t, p + 1)),
          first |-> At(t, p)]
    ELSE [pos |-> p, name |-> "", first |-> ""]

\* _parse_identifier
_parse_identifier(t, p) == IdentifierAt(t, _skip_whitespace(t, p))

\* lines 207-215 and 357-365: a name in quotes, the cursor at the opening quote
QuotedName(t, p) ==
    [pos  |-> IF ScanTo(t, p + 1, {"\""}) < Len(t)
              THEN ScanTo(t, p + 1, {"\""}) + 1 ELSE ScanTo(t, p + 1, {"\""}),
     name |-> Str(t, p + 1, ScanTo(t, p + 1, {"\""})),
     first |-> ""]

\* lines 205-218 and 355-368: the name of a property or of a member
NameAt(t, p) == IF At(t, p) = "\"" THEN QuotedName(t, p) ELSE _parse_identifier(t, p)

\* `if self.pos < len(self.text) and self.text[self.pos] in ";,": self.pos += 1`
SkipSeparator(t, p) == IF p < Len(t) /\ At(t, p) \in {";", ","} THEN p + 1 ELSE p

\* lines 222-229 and 238-245: skip to next property
SkipProperty(t, p) == SkipSeparator(t, ScanTo(t, p, {";", ",", "}"}))

\* _parse_type_expression, lines 283-311: behind the type name, which is the
\* identifier id; type_name[0].isupper() is asked of its first character
TypeNamed(t, id) ==
    LET is_array    == id.pos + 1 < Len(t) /\ Slice(t, id.pos, 2) = <<"[", "]">>
        q           == IF is_array THEN id.pos + 2 ELSE id.pos
        is_optional == q < Len(t) /\ At(t, q) = "?"
        primitive   == id.name \in {"string", "integer", "boolean"}
    IN  [pos |-> IF is_optional THEN q + 1 ELSE q,
         type |-> IF primitive THEN id.name
                  ELSE IF id.first \in Uppercase THEN "object"
                  ELSE "string",
         is_array |-> is_array,
         is_optional |-> is_optional,
         reference |-> IF ~primitive /\ id.first \in Uppercase THEN id.name ELSE None]

\* _parse_type_expression, lines 275-311: behind _parse_identifier
TypeOf(t, id) ==
    IF id.name = ""
    THEN [pos |-> id.pos, type |-> "string", is_array |-> FALSE, is_optional |-> FALSE,
          reference |-> None]
    ELSE TypeNamed(t, id)

\* _parse_type_expression
_parse_type_expression(t, p) == TypeOf(t, _parse_identifier(t, _skip_whitespace(t, p)))

\* _parse_model_property, lines 250-263: behind the type
PropertyTyped(t, name, type_info) ==
    [pos |-> SkipSeparator(t, type_info.pos),
     fields |-> <<TypeSpecField(name, type_info.type, type_info.is_optional,
                                type_info.is_array, type_info.reference)>>]

\* _parse_model_property, lines 236-263: behind `Skip until :`, the cursor at c
PropertyColon(t, name, c) ==
    IF c >= Len(t) \/ At(t, c) # ":"
    THEN [pos |-> SkipProperty(t, c),
          fields |-> <<TypeSpecField(name, "string", FALSE, FALSE, None)>>]
    ELSE PropertyTyped(t, name, _parse_type_expression(t, c + 1))

\* _parse_model_property, lines 220-263: behind the name
PropertyNamed(t, n) ==
    IF n.name = ""
    THEN [pos |-> SkipProperty(t, n.pos), fields |-> <<>>]
    ELSE PropertyColon(t, n.name, ScanTo(t, n.pos, {":"}))

\* _parse_model_property behind its _skip_whitespace; .fields is the field it
\* returns, or nothing for None
PropertyAt(t, p) ==
    IF p >= Len(t) \/ At(t, p) = "}" THEN [pos |-> p, fields |-> <<>>]
    ELSE PropertyNamed(t, NameAt(t, p))

\* _parse_model_property
_parse_model_property(t, p) == PropertyAt(t, _skip_whitespace(t, p))

\* _parse_enum_member, lines 370-387: behind the name
MemberNamed(t, n) ==
    IF n.name = ""
    THEN [pos |-> n.pos, values |-> <<>>]
    ELSE [pos |-> SkipSeparator(t, IF n.pos < Len(t) /\ At(t, n.pos) = ":"
                                   THEN ScanTo(t, n.pos, {",", "}", "\n"})
                                   ELSE n.pos),
          values |-> <<n.name>>]

\* _parse_enum_member behind its _skip_whitespace; .values is the member it
\* returns, or nothing for None
MemberAt(t, p) ==
    IF p >= Len(t) \/ At(t, p) = "}" THEN [pos |-> p, values |-> <<>>]
    ELSE MemberNamed(t, NameAt(t, p))

\* _parse_enum_member
_parse_enum_member(t, p) == MemberAt(t, _skip_whitespace(t, p))

\* lines 169-176 and 319-326: `Skip until {`, the cursor at b behind it
HeaderBrace(t, name, b) ==
    IF b >= Len(t) \/ At(t, b) # "{"
    THEN [raised |-> TRUE, pos |-> b, name |-> name]
    ELSE [raised |-> FALSE, pos |-> b + 1, name |-> name]

\* lines 165-176 and 315-326: behind _parse_identifier
HeaderNamed(t, id) ==
    IF id.name = ""
    THEN [raised |-> TRUE, pos |-> id.pos, name |-> ""]
    ELSE HeaderBrace(t, id.name, ScanTo(t, id.pos, {"{"}))

\* _parse_model_statement and _parse_enum_statement up to the body: the name
\* and the "{", or ValueError
StatementHeader(t, p) == HeaderNamed(t, _parse_identifier(t, p))

\* parse_typespec_script, line 50
max_iterations == 1000

\* the iterations of one body loop that a behaviour follows
MaxRounds == 4

\* the pieces a script is written from
MaxPieces == 2

\* a piece of a script: its characters, what it is, the name it declares and
\* the definition a well-formed statement stands for
Piece(chars, kind, name, definition) ==
    [chars |-> chars, kind |-> kind, name |-> name, definition |-> definition]

\* no definition: the piece is no well-formed statement
NoDefinition == TypeSpecDefinition("", "", <<>>, <<>>)

\* model A{x:string}
PieceModelA ==
    Piece(KwModel \o <<" ", "A", "{", "x", ":">> \o TyString \o <<"}">>, "statement", "A",
          TypeSpecDefinition("A", "OBJECT",
                             <<TypeSpecField("x", "string", FALSE, FALSE, None)>>, <<>>))

\* enum B{a,b}
PieceEnumB ==
    Piece(KwEnum \o <<" ", "B", "{", "a", ",", "b", "}">>, "statement", "B",
          TypeSpecDefinition("B", "ENUM", <<>>, <<"a", "b">>))

\* model C {\n y: B[]?;\n}
PieceModelC ==
    Piece(KwModel \o <<" ", "C", " ", "{", "\n", " ", "y", ":", " ", "B", "[", "]", "?", ";",
                       "\n", "}">>,
          "statement", "C",
          TypeSpecDefinition("C", "OBJECT",
                             <<TypeSpecField("y", "object", TRUE, TRUE, "B")>>, <<>>))

\* statements without their "{", and one without its name
PieceModelD == Piece(KwModel \o <<" ", "D">>, "braceless", "D", NoDefinition)
PieceEnumE == Piece(KwEnum \o <<" ", "E">>, "braceless", "E", NoDefinition)
PieceModel1 == Piece(KwModel \o <<" ", "1">>, "junk", "", NoDefinition)

\* text that is no statement
PieceWord == Piece(<<"x", "1">>, "junk", "", NoDefinition)
PieceMarks == Piece(<<"@", ";", "/", "/", "x">>, "junk", "", NoDefinition)

\* bodies with a token that is neither a name nor "}":
\* enum F{1}, enum F{a ,b}, model G{1;x:string}, model G{@x ,y}
PieceEnumDigit == Piece(KwEnum \o <<" ", "F", "{", "1", "}">>, "odd", "F", NoDefinition)
PieceEnumBlank ==
    Piece(KwEnum \o <<" ", "F", "{", "a", " ", ",", "b", "}">>, "odd", "F", NoDefinition)
PieceModelDigit ==
    Piece(KwModel \o <<" ", "G", "{", "1", ";", "x", ":">> \o TyString \o <<"}">>,
          "odd", "G", NoDefinition)
PieceModelMark ==
    Piece(KwModel \o <<" ", "G", "{", "@", "x", " ", ",", "y", "}">>, "odd", "G", NoDefinition)

PegPieces ==
    { PieceModelA, PieceEnumB, PieceModelC, PieceModelD, PieceEnumE, PieceModel1,
      PieceWord, PieceMarks, PieceEnumDigit, PieceEnumBlank, PieceModelDigit, PieceModelMark }

\* max_iterations characters that start no statement
PieceLong == Piece([k \in 1..max_iterations |-> "x"], "junk", "", NoDefinition)

\* the scripts: up to MaxPieces pieces, and a well-formed statement behind
\* max_iterations characters of other text
PegSources ==
    UNION { [1..n -> PegPieces] : n \in 1..MaxPieces } \cup { <<PieceLong, PieceEnumB>> }

\* the text of a script: its pieces, a newline behind each
RECURSIVE ScriptText(_)
ScriptText(src) ==
    IF src = <<>> THEN <<>> ELSE Head(src).chars \o <<"\n">> \o ScriptText(Tail(src))

\* the locals of parse_typespec_script and of the statement it is in
Locals(pc, table, iterations, definition, rounds) ==
    [pc |-> pc, definitions |-> table, iterations |-> iterations,
     definition |-> definition, rounds |-> rounds]

\* PEGParser(content) and parse_typespec_script up to its loop (lines 43-51)
InitPEG ==
    /\ source \in PegSources
    /\ script = ScriptText(source)
    /\ pos = 0
    /\ peg = Locals("top", <<>>, 0, NoDefinition, 0)
    /\ definitions = <<>>
    /\ returned = <<>>
    /\ raised = FALSE
    /\ entry = {}
    /\ output = NoOutput
    /\ field = NoField
    /\ fieldText = None
    /\ spelling = <<>>
    /\ symbol = NoSymbol
    /\ again = NoSymbol
    /\ InstancesUnused
    /\ ScannerUnused

\* what a PEGParser step leaves alone
PegFrame ==
    UNCHANGED <<script, source, definitions, returned, raised, entry, output, field,
                fieldText, spelling, symbol, again, instanceVars, scanned>>

\* lines 63-68 and 70-75: the statement behind its keyword; its header raises
\* and the cursor goes to the next statement, or its body starts
AfterHeader(type, h) ==
    IF h.raised
    THEN /\ pos' = _skip_to_next_statement(script, h.pos)
         /\ peg' = [peg EXCEPT !.iterations = @ + 1]
    ELSE /\ pos' = h.pos
         /\ peg' = [peg EXCEPT !.iterations = @ + 1, !.rounds = 0,
                               !.pc = IF type = "OBJECT" THEN "model_body" ELSE "enum_body",
                               !.definition = TypeSpecDefinition(h.name, type, <<>>, <<>>)]

\* lines 57-78: one iteration behind its _skip_whitespace, the cursor at p
TopAt(p) ==
    IF p >= Len(script)
    THEN pos' = p /\ peg' = [peg EXCEPT !.iterations = @ + 1, !.pc = "done"]
    ELSE IF KeywordAt(script, p, KwModel).matched
    THEN AfterHeader("OBJECT", StatementHeader(script, KeywordAt(script, p, KwModel).pos))
    ELSE IF KeywordAt(script, p, KwEnum).matched
    THEN AfterHeader("ENUM", StatementHeader(script, KeywordAt(script, p, KwEnum).pos))
    ELSE pos' = p + 1 /\ peg' = [peg EXCEPT !.iterations = @ + 1]

\* parse_typespec_script, one iteration of the loop of lines 53-78, up to the
\* body of the statement it finds
TopIteration ==
    /\ peg.pc = "top"
    /\ pos < Len(script) /\ peg.iterations < max_iterations
    /\ TopAt(_skip_whitespace(script, pos))
    /\ PegFrame

\* parse_typespec_script, line 80: the loop ended
ReturnDefinitions ==
    /\ peg.pc = "top"
    /\ ~(pos < Len(script) /\ peg.iterations < max_iterations)
    /\ peg' = [peg EXCEPT !.pc = "done"]
    /\ PegFrame /\ UNCHANGED pos

\* lines 192-196 and 342-346 with lines 65 and 72: the "}" is skipped and the
\* definition goes into the table
EndStatement(p, rounds) ==
    /\ pos' = IF p < Len(script) /\ At(script, p) = "}" THEN p + 1 ELSE p
    /\ peg' = [peg EXCEPT !.pc = "top", !.rounds = rounds,
                          !.definitions = Put(@, peg.definition)]

\* lines 187-190: a property is parsed and appended
PropertyParsed(r) ==
    /\ pos' = r.pos
    /\ peg' = [peg EXCEPT !.rounds = @ + 1, !.definition.fields = @ \o r.fields]

\* lines 337-340: a member is parsed and appended
MemberParsed(r) ==
    /\ pos' = r.pos
    /\ peg' = [peg EXCEPT !.rounds = @ + 1, !.definition.values = @ \o r.values]

\* the condition of the body loops, lines 181 and 331
InBody == pos < Len(script) /\ At(script, pos) # "}"

\* lines 182-185 and 332-335: the loop is left when only blanks precede the "}"
BodyBreaks(p) == p >= Len(script) \/ At(script, p) = "}"

\* _parse_model_statement, one iteration of the loop of lines 181-190
ModelBodyIteration ==
    /\ peg.pc = "model_body"
    /\ InBody
    /\ peg.rounds < MaxRounds
    /\ IF BodyBreaks(_skip_whitespace(script, pos))
       THEN EndStatement(_skip_whitespace(script, pos), peg.rounds + 1)
       ELSE PropertyParsed(_parse_model_property(script, _skip_whitespace(script, pos)))
    /\ PegFrame

\* _parse_enum_statement, one iteration of the loop of lines 331-340
EnumBodyIteration ==
    /\ peg.pc = "enum_body"
    /\ InBody
    /\ peg.rounds < MaxRounds
    /\ IF BodyBreaks(_skip_whitespace(script, pos))
       THEN EndStatement(_skip_whitespace(script, pos), peg.rounds + 1)
       ELSE MemberParsed(_parse_enum_member(script, _skip_whitespace(script, pos)))
    /\ PegFrame

\* the body loop of either statement ends at its condition
BodyEnds ==
    /\ peg.pc \in {"model_body", "enum_body"}
    /\ ~InBody
    /\ EndStatement(pos, peg.rounds)
    /\ PegFrame

NextPEG ==
    \/ TopIteration
    \/ ReturnDefinitions
    \/ ModelBodyIteration
    \/ EnumBodyIteration
    \/ BodyEnds

SpecPEG == InitPEG /\ [][NextPEG]_vars

\* the script is parsed: parse_typespec_script returned
PegDone == peg.pc = "done"

\* the pieces of the script that are of one of the given kinds
PiecesOf(kinds) == { k \in DOMAIN source : source[k].kind \in kinds }

\* the returned table holds the definition the well-formed statement k stands for
Present(k) ==
    /\ Has(peg.definitions, source[k].name)
    /\ Get(peg.definitions, source[k].name) = source[k].definition

\* C26: when a script with a statement that lacks its "{" is parsed, the table
\* holds nothing under that statement's name, and it holds every well-formed
\* statement of the script as written.
C26_BracelessAbortsAlone ==
    (PegDone /\ PiecesOf({"braceless"}) # {}) =>
        /\ \A k \in PiecesOf({"braceless"}) : ~Has(peg.definitions, source[k].name)
        /\ \A k \in PiecesOf({"statement"}) : Present(k)

\* C28: every iteration of the top-level loop and of the body loops leaves the
\* cursor further on than it found it.
C28_EveryIterationAdvances ==
    [][(peg'.iterations = peg.iterations + 1 \/ peg'.rounds = peg.rounds + 1)
           => pos' > pos]_vars

\* C29: when a script of well-formed statements and other text is parsed, the
\* cursor ends at len(text) and the table holds every well-formed statement.
C29_SkipsToEnd ==
    (PegDone /\ PiecesOf({"statement", "junk"}) = DOMAIN source) =>
        /\ pos = Len(script)
        /\ \A k \in PiecesOf({"statement"}) : Present(k)

-----------------------------------------------------------------------------
(* PEGParser._skip_whitespace on its own, from every cursor of every text *)

\* the characters of the texts, and the length of the longest text
SkipChars == {" ", "\n", "/", "*", "x"}
MaxSkipLen == 4

SkipTexts == UNION { [1..n -> SkipChars] : n \in 0..MaxSkipLen }

\* a PEGParser whose cursor a caller has put somewhere in its text
InitSkip ==
    /\ script \in SkipTexts
    /\ pos \in 0..Len(script)
    /\ peg = [pc |-> "ready", start |-> pos]
    /\ Constructed /\ InstancesUnused /\ ScannerUnused

\* self._skip_whitespace()
SkipWhitespace ==
    /\ peg.pc = "ready"
    /\ pos' = _skip_whitespace(script, pos)
    /\ peg' = [peg EXCEPT !.pc = "skipped"]
    /\ UNCHANGED <<script, vars1, instanceVars, scanned>>

\* the caller moves the cursor: self.pos = p
MoveCursor(p) ==
    /\ peg.pc = "skipped"
    /\ pos' = p
    /\ peg' = [pc |-> "ready", start |-> p]
    /\ UNCHANGED <<script, vars1, instanceVars, scanned>>

NextSkip ==
    \/ SkipWhitespace
    \/ \E p \in 0..Len(script) : MoveCursor(p)

SpecSkip == InitSkip /\ [][NextSkip]_vars

\* the places behind p + 2 where a "*/" closes the block comment opened at p
Closings(t, p) == { q \in (p + 2)..(Len(t) - 2) : Slice(t, q, 2) = <<"*", "/">> }

\* the end of the longest run of blanks, line comments and complete block
\* comments that starts at p
RECURSIVE RunEnd(_, _)
RunEnd(t, p) ==
    IF p >= Len(t) THEN p
    ELSE IF At(t, p) \in Blanks THEN RunEnd(t, p + 1)
    ELSE IF Slice(t, p, 2) = <<"/", "/">> THEN RunEnd(t, ScanTo(t, p, {"\n"}))
    ELSE IF Slice(t, p, 2) = <<"/", "*">> /\ Closings(t, p) # {}
         THEN RunEnd(t, (CHOOSE q \in Closings(t, p) : \A o \in Closings(t, p) : q <= o) + 2)
    ELSE p

\* C25: _skip_whitespace leaves the cursor within the text, at the end of the
\* longest run of blanks, line comments and complete block comments that
\* starts where the cursor was.
C25_SkipsLongestRun ==
    peg.pc = "skipped" =>
        /\ pos <= Len(script)
        /\ pos = RunEnd(script, peg.start)

-----------------------------------------------------------------------------
(* TypeSpecParser._parse_with_lines, the line scanner (parser.py 101-324).   *)
(* A line is the sequence of its lexemes; a str the scanner stores is the    *)
(* concatenation of the lexemes it cut out.                                  *)

\* c in s
Holds(s, c) == \E i \in 1..Len(s) : s[i] = c

\* s.find(c) + 1 for a c that s holds
Find(s, c) == CHOOSE i \in 1..Len(s) : s[i] = c /\ \A j \in 1..(i - 1) : s[j] # c

\* sep.join(parts)
RECURSIVE JoinWith(_, _)
JoinWith(parts, sep) ==
    IF Len(parts) = 1 THEN parts[1]
    ELSE parts[1] \o <<sep>> \o JoinWith(Tail(parts), sep)

\* _parse_field returned None
NoFieldParsed == << <<None>> >>

\* _parse_field, lines 224-242: the decorators in front of the field are cut
\* off; NoFieldParsed for `return None`
RECURSIVE StripDecorators(_)
StripDecorators(line) ==
    IF line = <<>> \/ Head(line) # "@" THEN line
    ELSE IF Holds(line, "(") /\ Holds(line, ")")
         THEN StripDecorators(Strip(SubSeq(line, Find(line, ")") + 1, Len(line))))
    ELSE IF Holds(line, " ")
         THEN StripDecorators(SubSeq(line, Find(line, " ") + 1, Len(line)))
    ELSE NoFieldParsed

\* _parse_field, lines 245-258: the "?" that ends the type is cut off, or every
\* "?" of a line without ":"
StripOptionalMarker(line) ==
    LET parts     == Split(line, ":")
        type_part == Strip(parts[Len(parts)])
    IN  IF ~Holds(line, "?") THEN line
        ELSE IF Len(parts) >= 2
             THEN IF EndsWith(type_part, <<"?">>)
                  THEN JoinWith(SubSeq(parts, 1, Len(parts) - 1) \o <<DropLast(type_part, 1)>>,
                                ":")
                  ELSE line
        ELSE SelectSeq(line, LAMBDA c : c # "?")

\* _parse_field, lines 279-312: the type and the reference of a type_str
\* without "[]", looked up in self.definitions as it is when the line is read
LineTypeOf(table, type_str) ==
    LET enum_ref    == Join(SubSeq(type_str, 1, Find(type_str, ".") - 1))
        member_name == SubSeq(type_str, Find(type_str, ".") + 1, Len(type_str))
    IN  IF Join(type_str) \in {"string", "integer", "boolean"}
        THEN [type |-> Join(type_str), reference |-> None]
        ELSE IF Join(type_str) = "int32" THEN [type |-> "integer", reference |-> None]
        ELSE IF Holds(type_str, ".")
             THEN IF Has(table, enum_ref) /\ Get(table, enum_ref).type = "ENUM"
                  THEN [type |-> "object",
                        reference |-> enum_ref \o "." \o Join(_normalize_enum_member(member_name))]
                  ELSE IF Has(table, enum_ref)
                       THEN [type |-> "object", reference |-> enum_ref]
                       ELSE [type |-> "string", reference |-> None]
        ELSE IF Has(table, Join(type_str))
             THEN [type |-> "object", reference |-> Join(type_str)]
        ELSE [type |-> "string", reference |-> None]

\* _parse_field, lines 264-324: the field of a line that holds ":"
FieldTyped(table, name, type_str, is_optional, has_key_decorator) ==
    LET is_union   == Holds(type_str, "|")
        is_array   == ~is_union /\ EndsWith(type_str, <<"[", "]">>)
        plain      == LineTypeOf(table, StripArraySuffix(type_str))
        field_type == IF is_union
                      THEN IF \E i \in 1..Len(type_str) : type_str[i] \in StringLiterals
                           THEN "string" ELSE "object"
                      ELSE plain.type
    IN  TypeSpecField(IF has_key_decorator THEN "@key " \o Join(name) ELSE Join(name),
                      field_type, is_optional, is_array,
                      IF is_union THEN None ELSE plain.reference)

\* _parse_field, lines 244-324: behind the decorators
FieldOf(table, line, has_key_decorator) ==
    IF line = NoFieldParsed THEN <<>>
    ELSE IF ~Holds(StripOptionalMarker(line), ":") THEN <<>>
    ELSE <<FieldTyped(table,
                      Strip(SubSeq(StripOptionalMarker(line), 1,
                                   Find(StripOptionalMarker(line), ":") - 1)),
                      Strip(SubSeq(StripOptionalMarker(line),
                                   Find(StripOptionalMarker(line), ":") + 1,
                                   Len(StripOptionalMarker(line)))),
                      Holds(line, "?"), has_key_decorator)>>

\* line 221: "@key" in line
HasKeyDecorator(line) == \E i \in 1..(Len(line) - 1) : line[i] = "@" /\ line[i + 1] = "key"

\* _parse_field: a list with the TypeSpecField, or the empty list for None
_parse_field(table, line) ==
    FieldOf(table, StripDecorators(RStrip(line, {";", ","})),
            HasKeyDecorator(RStrip(line, {";", ","})))

\* `if not line or line.startswith("//")` for a stripped line
EmptyOrComment(line) == line = <<>> \/ Head(line) = "// note"

\* `while i < len(lines) and not lines[i].strip().startswith("}")`
InBlock(lines, i) == i <= Len(lines) /\ ~StartsWith(Strip(lines[i]), <<"}">>)

\* _parse_model, lines 146-167: the fields of the lines from i to the line
\* that starts with "}", and the index of that line
RECURSIVE ModelFields(_, _, _, _)
ModelFields(table, lines, i, fields) ==
    IF ~InBlock(lines, i) THEN [i |-> i, fields |-> fields]
    ELSE IF EmptyOrComment(Strip(lines[i])) THEN ModelFields(table, lines, i + 1, fields)
    ELSE ModelFields(table, lines, i + 1, fields \o _parse_field(table, Strip(lines[i])))

\* _parse_enum, lines 191-210: the values of the lines from i to the line that
\* starts with "}", and the index of that line
RECURSIVE EnumValues(_, _, _)
EnumValues(lines, i, values) ==
    IF ~InBlock(lines, i) THEN [i |-> i, values |-> values]
    ELSE IF EmptyOrComment(Strip(lines[i])) \/ Head(Strip(lines[i])) = "@"
         THEN EnumValues(lines, i + 1, values)
    ELSE IF Strip(Split(Split(Strip(lines[i]), ",")[1], ";")[1]) # <<>>
         THEN EnumValues(lines, i + 1,
                         Append(values, Join(Strip(Split(Split(Strip(lines[i]), ",")[1], ";")[1]))))
    ELSE EnumValues(lines, i + 1, values)

\* lines 136-140 and 183-185: the word behind the keyword, up to a "{", "("
\* or "<" (an enum name is cut at "{" only)
NameBehind(parts, keyword, cuts) ==
    LET idx  == IF \E k \in 1..Len(parts) : parts[k] = <<keyword>>
                THEN CHOOSE k \in 1..Len(parts) :
                        parts[k] = <<keyword>> /\ \A j \in 1..(k - 1) : parts[j] # <<keyword>>
                ELSE 1
        word == parts[idx + 1]
    IN  Join(IF \E k \in 1..Len(word) : word[k] \in cuts
             THEN SubSeq(word, 1, (CHOOSE k \in 1..Len(word) :
                                      word[k] \in cuts /\ \A j \in 1..(k - 1) : word[j] \notin cuts) - 1)
             ELSE word)

\* _parse_model behind its loop: [table, i] for self.definitions and the index
\* it returns (lines 169-170)
ModelScanned(table, model_name, body) ==
    [table |-> Put(table, TypeSpecDefinition(model_name, "OBJECT", body.fields, <<>>)),
     i |-> body.i + 1]

\* _parse_model, for a line that starts with "model " (and so with no "@")
_parse_model(table, lines, start_index) ==
    ModelScanned(table,
                 NameBehind(SplitBlanks(Strip(lines[start_index])), "model", {"{", "(", "<"}),
                 ModelFields(table, lines, start_index + 1, <<>>))

\* _parse_enum behind its loop (lines 212-213)
EnumScanned(table, enum_name, body) ==
    [table |-> Put(table, TypeSpecDefinition(enum_name, "ENUM", <<>>, body.values)),
     i |-> body.i + 1]

\* _parse_enum, for a line that starts with "enum "
_parse_enum(table, lines, start_index) ==
    EnumScanned(table, NameBehind(SplitBlanks(Strip(lines[start_index])), "enum", {"{"}),
                EnumValues(lines, start_index + 1, <<>>))

\* _parse_with_lines, the loop of lines 106-121 from line i on
RECURSIVE ScanFrom(_, _, _)
ScanFrom(table, lines, i) ==
    IF i > Len(lines) THEN table
    ELSE IF StartsWith(Strip(lines[i]), <<"model", " ">>)
         THEN ScanFrom(_parse_model(table, lines, i).table, lines,
                       _parse_model(table, lines, i).i)
    ELSE IF StartsWith(Strip(lines[i]), <<"enum", " ">>)
         THEN ScanFrom(_parse_enum(table, lines, i).table, lines,
                       _parse_enum(table, lines, i).i)
    ELSE ScanFrom(table, lines, i + 1)

\* _parse_with_lines on an instance whose table is `table`
_parse_with_lines(table, content) == ScanFrom(table, Split(Strip(content), "\n"), 1)

\* two fresh instances, one for each engine: TypeSpecParser()
\* ._parse_with_parsimonious(text) ended as r
GrammarParsed(src, r) ==
    /\ definitions' = r.definitions
    /\ raised' = r.raised
    /\ returned' = IF r.raised THEN <<>> ELSE r.definitions
    /\ source' = src
    /\ entry' = {}
    /\ output' = NoOutput
    /\ scanned' = NotScanned
    /\ UNCHANGED <<instanceVars, pegVars, field, fieldText, spelling, symbol, again>>

\* TypeSpecParser()._parse_with_parsimonious(text)
ParseWithGrammar(src) == GrammarParsed(src, _parse_with_parsimonious(<<>>, SourceText(src)))

\* TypeSpecParser()._parse_with_lines(text), for the same text
ParseWithLines ==
    /\ scanned' = [done |-> TRUE, table |-> _parse_with_lines(<<>>, SourceText(source))]
    /\ UNCHANGED <<vars1, instanceVars, pegVars>>

NextLines ==
    \/ \E src \in Sources : ParseWithGrammar(src)
    \/ ParseWithLines

SpecLines == Init /\ [][NextLines]_vars

\* C27: for a text the grammar engine accepts, the table of _parse_with_lines
\* on a fresh instance is the table of _parse_with_parsimonious.
C27_ScannerAgrees ==
    (scanned.done /\ ~raised) => scanned.table = definitions

====
